---- MODULE Spec2Model ----
(***************************************************************************)
(* TraderDNA analytics engine: alpha/beta attribution, risk metrics,       *)
(* time-decay analysis, behavior tags and the three interpreters,          *)
(* modelled from src/analysis/*.py.                                        *)
(*                                                                         *)
(* Real numbers are exact rationals <<n, d>> in lowest terms with d > 0;   *)
(* floating-point rounding is not modelled.  A pandas Series is a function *)
(* from the timestamps 1..MaxT to a cell: Absent (the timestamp is not in  *)
(* the index), NaN (an undefined entry) or a rational.                     *)
(***************************************************************************)
EXTENDS Integers, Sequences, FiniteSets

\* ------------------------------------------------------------ bounds
\* Number of calendar days (timestamps) a return series may cover.
MaxT == 3
\* Number of records a trade ledger may hold.
MaxTrades == 3

\* ------------------------------------------------------------ rationals
Abs(x) == IF x < 0 THEN -x ELSE x

RECURSIVE GCD(_, _)
GCD(a, b) == IF b = 0 THEN a ELSE GCD(b, a % b)

\* n/d in lowest terms, d > 0 (d # 0 is required of the caller).
Rat(n, d) ==
    LET g == GCD(Abs(n), Abs(d))
        s == IF d < 0 THEN -1 ELSE 1
    IN  <<(s * n) \div g, (s * d) \div g>>

Num(r) == r[1]
Den(r) == r[2]
Zero == <<0, 1>>
One == <<1, 1>>
FromInt(i) == <<i, 1>>

RAdd(a, b) ==
    LET g == GCD(a[2], b[2])
    IN  Rat(a[1] * (b[2] \div g) + b[1] * (a[2] \div g), (a[2] \div g) * b[2])
RNeg(a) == <<-a[1], a[2]>>
RSub(a, b) == RAdd(a, RNeg(b))
RMul(a, b) ==
    LET g1 == GCD(Abs(a[1]), b[2])
        g2 == GCD(Abs(b[1]), a[2])
    IN  <<(a[1] \div g1) * (b[1] \div g2), (a[2] \div g2) * (b[2] \div g1)>>
\* a / b for b # 0.
RDiv(a, b) ==
    RMul(a, IF b[1] < 0 THEN <<-b[2], -b[1]>> ELSE <<b[2], b[1]>>)
RAbs(a) == <<Abs(a[1]), a[2]>>
RLt(a, b) ==
    LET g == GCD(a[2], b[2])
    IN  a[1] * (b[2] \div g) < b[1] * (a[2] \div g)
RGt(a, b) == RLt(b, a)
RLe(a, b) == ~RLt(b, a)
RMin(a, b) == IF RLt(b, a) THEN b ELSE a
RMax(a, b) == IF RLt(a, b) THEN b ELSE a

\* ------------------------------------------------------------ series
\* A cell that is no rational: the timestamp is not in the index, or the
\* entry is undefined (NaN, written 0/0).
Absent == <<>>
NaN == <<0, 0>>

\* The index of a series, and its defined (non-NaN) part.
Index(s) == {t \in DOMAIN s : s[t] # Absent}
IsEmpty(s) == Index(s) = {}
Defined(s) == {t \in DOMAIN s : s[t] # Absent /\ s[t] # NaN}

\* The timestamps of a set in increasing order.
RECURSIVE SortedSeq(_)
SortedSeq(S) ==
    IF S = {} THEN <<>>
    ELSE LET m == CHOOSE x \in S : \A y \in S : x <= y
         IN  <<m>> \o SortedSeq(S \ {m})

\* The values of series s at the timestamps T, in timestamp order.
Values(s, T) == LET o == SortedSeq(T) IN [i \in 1..Len(o) |-> s[o[i]]]

RECURSIVE SumSeq(_)
SumSeq(xs) == IF xs = <<>> THEN Zero ELSE RAdd(xs[1], SumSeq(Tail(xs)))

RECURSIVE ProdSeq(_)
ProdSeq(xs) == IF xs = <<>> THEN One ELSE RMul(xs[1], ProdSeq(Tail(xs)))

\* Series.mean() of a non-empty sequence.
Mean(xs) == RDiv(SumSeq(xs), FromInt(Len(xs)))

\* (1 + r).prod() - 1
TotalReturn(xs) ==
    RSub(ProdSeq([i \in 1..Len(xs) |-> RAdd(One, xs[i])]), One)

\* np.cov(x, y)[0, 1]: sample covariance, n - 1 denominator (Len >= 2).
Cov(xs, ys) ==
    LET mx == Mean(xs)
        my == Mean(ys)
    IN  RDiv(SumSeq([i \in 1..Len(xs) |->
                        RMul(RSub(xs[i], mx), RSub(ys[i], my))]),
             FromInt(Len(xs) - 1))

\* np.var(x, ddof=1)
Var(xs) == Cov(xs, xs)

\* ------------------------------------------------------------ constants
\* risk_free_rate: float = 0.04
RiskFreeRate == <<1, 25>>
\* trading days per year used to annualize (252)
PeriodsPerYear == 252
\* abs(total_return) > 0.0001
PctEpsilon == <<1, 10000>>

\* ------------------------------------------------------------ inputs
\* Daily returns a series may hold: -50%, 0, +100%.
RetVals == {<<-1, 2>>, Zero, One}
\* One basis point, +0.01%: a day that leaves the total return inside the
\* epsilon band around 0.
BasisPoint == <<1, 10000>>
Timestamps == 1..MaxT
SeriesCells == {Absent, NaN} \cup RetVals
\* The wallet series may hold a basis-point day on its first timestamp.
WalletCells(t) == IF t = 1 THEN SeriesCells \cup {BasisPoint} ELSE SeriesCells
WalletSeries == {s \in [Timestamps -> SeriesCells \cup {BasisPoint}] :
                    \A t \in Timestamps : s[t] \in WalletCells(t)}
\* The benchmark series is a pct_change() of prices: only its first entry may
\* be undefined.
EthCells(t) ==
    IF t = 1 THEN {Absent, NaN} \cup RetVals ELSE {Absent} \cup RetVals
EthSeries == {s \in [Timestamps -> SeriesCells] :
                 \A t \in Timestamps : s[t] \in EthCells(t)}

\* calculate_risk_metrics inputs: the same days, a total-loss day (-100%) and
\* a +50% day.
RiskCells == SeriesCells \cup {<<-1, 1>>, <<1, 2>>}
RiskSeries == [Timestamps -> RiskCells]

\* time_decay_analysis inputs.  Time is counted in days.  The wall clock
\* reads one of ClockDays when the call is made; a trade of day 70 is 30 days
\* old at day 100 and 31 days old at day 101, one of day 93 is 7 or 8 days old.
ClockDays == {100, 101}
TradeDays == {0, 70, 93, 100}
PnlVals == {<<-100, 1>>, Zero, <<50, 1>>}
TradeRecords == [timestamp : TradeDays, realized_pnl : PnlVals]
Ledgers == UNION {[1..n -> TradeRecords] : n \in 0..MaxTrades}

VARIABLES
    wallet_returns,   \* calculate_alpha_beta argument
    eth_returns,      \* calculate_alpha_beta argument
    ab_pc,            \* "call", then the return statement taken
    ab_result,        \* the dictionary calculate_alpha_beta returned
    returns_series,   \* calculate_risk_metrics argument
    rm_pc,            \* "call", then the return statement taken
    rm_result,        \* the dictionary calculate_risk_metrics returned
    trades_df,        \* time_decay_analysis argument: the trade ledger
    clock,            \* the wall clock, in days (read by datetime.now())
    td_pc,            \* "call", then the return statement taken
    td_result,        \* the dictionary time_decay_analysis returned
    td_first,         \* the result of an earlier call on the same ledger
    analysis_results, \* generate_behavior_tags argument: the metrics dict
    TAGS,             \* the module-level table of predefined tags
    tg_pc,            \* "call", "returned", "call_again", "returned_again"
    tags,             \* the list generate_behavior_tags returned
    tags_first,       \* the list an earlier call on the same dict returned
    in_pc,            \* which interpret_* function has returned, if any
    interpretations,  \* the dictionary that interpret_* function returned
    wallet_data,      \* run_analysis: what fetch_wallet_data returned
    ra_pc,            \* run_analysis: the step it is at
    ra_interp,        \* run_analysis: the three *_interp dictionaries
    pnl_df,           \* calculate_realized_pnl argument: the trades frame
    pnl_pc,           \* calculate_realized_pnl: the statement it is at
    unique_tokens,    \* the tokens the outer loop has yet to take
    token_trades,     \* the rows of the current token not yet iterated
    buy_queue,        \* the FIFO queue of (amount, price) lots
    pnl_records,      \* the records appended so far
    max_wait,         \* _wait_for_result argument, in seconds
    elapsed,          \* time.time() - start_time, in whole seconds
    data,             \* the body of the last poll's response
    wr_pc,            \* _wait_for_result: the statement it is at
    wr_result         \* what _wait_for_result returned

ab_vars == <<wallet_returns, eth_returns, ab_pc, ab_result>>
rm_vars == <<returns_series, rm_pc, rm_result>>
td_vars == <<trades_df, clock, td_pc, td_result, td_first>>
tg_vars == <<analysis_results, TAGS, tg_pc, tags, tags_first>>
in_vars == <<in_pc, interpretations>>
ra_vars == <<wallet_data, ra_pc, ra_interp>>
pnl_vars == <<pnl_df, pnl_pc, unique_tokens, token_trades, buy_queue,
              pnl_records>>
wr_vars == <<max_wait, elapsed, data, wr_pc, wr_result>>
rest_vars == <<pnl_vars, wr_vars>>
outer_vars == <<ra_vars, rest_vars>>
vars == <<ab_vars, rm_vars, td_vars, tg_vars, in_vars, outer_vars>>

\* ------------------------------------------------------------ alpha/beta
NoResult == [none |-> TRUE]

ZeroAttribution ==
    [alpha |-> Zero, beta |-> Zero, alpha_pct |-> Zero, beta_pct |-> Zero,
     alpha_contribution |-> Zero, beta_contribution |-> Zero,
     total_return |-> Zero]

\* pd.concat([...], axis=1).dropna(): the timestamps at which both series
\* hold a defined value.
Aligned(w, e) == Defined(w) \cap Defined(e)

\* len(aligned) < 2
InsufficientData_OffByOne(n) == n <= 2
InsufficientData(n) == n < 2

\* abs(total_return) > 0.0001
PctMeaningful_NoEpsilon(total_return) == total_return # Zero
PctMeaningful(total_return) == RGt(RAbs(total_return), PctEpsilon)

\* np.var(eth_excess) with the default ddof = 0 in place of ddof = 1
CalculateAlphaBetaManual_PopVar(wr, er, rf) ==
    LET rf_daily == RDiv(rf, FromInt(PeriodsPerYear))
        wallet_excess == [i \in 1..Len(wr) |-> RSub(wr[i], rf_daily)]
        eth_excess == [i \in 1..Len(er) |-> RSub(er[i], rf_daily)]
        covariance == Cov(wallet_excess, eth_excess)
        variance == RMul(Var(eth_excess), Rat(Len(er) - 1, Len(er)))
        beta == IF RGt(variance, Zero) THEN RDiv(covariance, variance) ELSE Zero
        alpha == RMul(RSub(Mean(wallet_excess), RMul(beta, Mean(eth_excess))),
                      FromInt(PeriodsPerYear))
    IN  <<beta, alpha>>

\* _calculate_alpha_beta_manual: <<beta, alpha>>
CalculateAlphaBetaManual(wr, er, rf) ==
    LET rf_daily == RDiv(rf, FromInt(PeriodsPerYear))
        wallet_excess == [i \in 1..Len(wr) |-> RSub(wr[i], rf_daily)]
        eth_excess == [i \in 1..Len(er) |-> RSub(er[i], rf_daily)]
        covariance == Cov(wallet_excess, eth_excess)
        variance == Var(eth_excess)
        beta == IF RGt(variance, Zero) THEN RDiv(covariance, variance) ELSE Zero
        alpha == RMul(RSub(Mean(wallet_excess), RMul(beta, Mean(eth_excess))),
                      FromInt(PeriodsPerYear))
    IN  <<beta, alpha>>

\* a sign slip: total_return + beta_contribution
AlphaContribution_SignSlip(total_return, beta_contribution) ==
    RAdd(total_return, beta_contribution)

\* alpha_contribution = total_return - beta_contribution
AlphaContribution(total_return, beta_contribution) ==
    RSub(total_return, beta_contribution)

\* the computed path of calculate_alpha_beta (lines 57-89)
Attribution(w, e, rf) ==
    LET T == Aligned(w, e)
        wallet_ret == Values(w, T)
        eth_ret == Values(e, T)
        ba == CalculateAlphaBetaManual(wallet_ret, eth_ret, rf)
        beta == ba[1]
        alpha == ba[2]
        total_return == TotalReturn(wallet_ret)
        eth_total_return == TotalReturn(eth_ret)
        beta_contribution == RMul(beta, eth_total_return)
        alpha_contribution == AlphaContribution(total_return, beta_contribution)
        computed == PctMeaningful(total_return)
    IN  [alpha |-> alpha, beta |-> beta,
         alpha_pct |-> IF computed
                       THEN RMul(RDiv(alpha_contribution, total_return), FromInt(100))
                       ELSE Zero,
         beta_pct |-> IF computed
                      THEN RMul(RDiv(beta_contribution, total_return), FromInt(100))
                      ELSE Zero,
         alpha_contribution |-> alpha_contribution,
         beta_contribution |-> beta_contribution,
         total_return |-> total_return]

\* if wallet_returns.empty or eth_returns.empty: return {zeros}
AB_ReturnEmpty ==
    /\ ab_pc = "call"
    /\ IsEmpty(wallet_returns) \/ IsEmpty(eth_returns)
    /\ ab_result' = ZeroAttribution
    /\ ab_pc' = "zero_empty"
    /\ UNCHANGED <<wallet_returns, eth_returns, rm_vars, td_vars, tg_vars, in_vars, outer_vars>>

\* if len(aligned) < 2: return {zeros}
AB_ReturnShort ==
    /\ ab_pc = "call"
    /\ ~(IsEmpty(wallet_returns) \/ IsEmpty(eth_returns))
    /\ InsufficientData(Cardinality(Aligned(wallet_returns, eth_returns)))
    /\ ab_result' = ZeroAttribution
    /\ ab_pc' = "zero_short"
    /\ UNCHANGED <<wallet_returns, eth_returns, rm_vars, td_vars, tg_vars, in_vars, outer_vars>>

\* the computed return
AB_ReturnComputed ==
    /\ ab_pc = "call"
    /\ ~(IsEmpty(wallet_returns) \/ IsEmpty(eth_returns))
    /\ ~InsufficientData(Cardinality(Aligned(wallet_returns, eth_returns)))
    /\ ab_result' = Attribution(wallet_returns, eth_returns, RiskFreeRate)
    /\ ab_pc' = "computed"
    /\ UNCHANGED <<wallet_returns, eth_returns, rm_vars, td_vars, tg_vars, in_vars, outer_vars>>

\* A component that is not called in a specification stays idle.
EmptySeries == [t \in Timestamps |-> Absent]
IdleAB ==
    /\ wallet_returns = EmptySeries
    /\ eth_returns = EmptySeries
    /\ ab_pc = "idle"
    /\ ab_result = NoResult
IdleRM ==
    /\ returns_series = EmptySeries
    /\ rm_pc = "idle"
    /\ rm_result = NoResult


IdleTD ==
    /\ trades_df = <<>>
    /\ clock = 0
    /\ td_pc = "idle"
    /\ td_result = NoResult
    /\ td_first = NoResult

IdleIN ==
    /\ in_pc = "idle"
    /\ interpretations = NoResult

\* run_analysis has not been started.
NoWalletData ==
    [wallet_returns |-> EmptySeries, eth_returns |-> EmptySeries,
     trades_df |-> <<>>, trade_count |-> 0]
NoInterp == [alpha_beta |-> NoResult, time_decay |-> NoResult, risk |-> NoResult]
IdleRA ==
    /\ wallet_data = NoWalletData
    /\ ra_pc = "idle"
    /\ ra_interp = NoInterp
IdlePNL ==
    /\ pnl_df = <<>>
    /\ pnl_pc = "idle"
    /\ unique_tokens = <<>>
    /\ token_trades = <<>>
    /\ buy_queue = <<>>
    /\ pnl_records = <<>>
IdleWR ==
    /\ max_wait = 0
    /\ elapsed = 0
    /\ data = NoResult
    /\ wr_pc = "idle"
    /\ wr_result = NoResult
IdleRest == IdlePNL /\ IdleWR
IdleOuter == IdleRA /\ IdleRest

\* BehaviorTag(emoji, name, description, category); an emoji is written as
\* its code point and a description by its English half.
BehaviorTag(emoji, name, description, category) ==
    [emoji |-> emoji, name |-> name, description |-> description,
     category |-> category]

\* TAGS = {...}: the predefined tags, as the module is loaded
TagTable ==
    [k \in {"diamond_hands", "paper_hands", "gambler", "conservative",
            "one_hit_wonder", "one_token_pony", "suspicious", "whale",
            "sniper", "fomo_buyer", "smart_money", "declining",
            "active_trader", "dormant"} |->
        CASE k = "diamond_hands" ->
                BehaviorTag("U+1F48E", "Diamond Hands", "Avg Hold > 7d", "positive")
          [] k = "paper_hands" ->
                BehaviorTag("U+1F9FB", "Paper Hands", "Avg Hold < 1d", "negative")
          [] k = "gambler" ->
                BehaviorTag("U+1F3B0", "Gambler", "High freq, bad odds", "warning")
          [] k = "conservative" ->
                BehaviorTag("U+1F422", "Conservative", "Low risk, stable", "positive")
          [] k = "one_hit_wonder" ->
                BehaviorTag("U+1F680", "One-Hit Wonder", "Single win reliance", "warning")
          [] k = "one_token_pony" ->
                BehaviorTag("U+1F984", "One-Token Pony", "Concentrated on one token", "warning")
          [] k = "suspicious" ->
                BehaviorTag("U+1F400", "Suspicious", "Insider-like precision", "warning")
          [] k = "whale" ->
                BehaviorTag("U+1F40B", "Whale", "High volume trader", "neutral")
          [] k = "sniper" ->
                BehaviorTag("U+1F3AF", "Sniper", "High win rate sniper", "positive")
          [] k = "fomo_buyer" ->
                BehaviorTag("U+1F631", "FOMO Buyer", "Chasing pumps", "negative")
          [] k = "smart_money" ->
                BehaviorTag("U+1F9E0", "Smart Money", "High Alpha & skill", "positive")
          [] k = "declining" ->
                BehaviorTag("U+1F4C9", "Declining", "Performance decay", "warning")
          [] k = "active_trader" ->
                BehaviorTag("U+26A1", "Active Trader", "Frequently trading", "neutral")
          [] k = "dormant" ->
                BehaviorTag("U+1F634", "Dormant", "Inactive recently", "neutral")]

\* TAGS_ZH = {...}: the Chinese display name of each tag name, written as
\* its code points
TAGS_ZH ==
    [n \in {"Diamond Hands", "Paper Hands", "Gambler", "Conservative",
            "One-Hit Wonder", "One-Token Pony", "Suspicious", "Whale",
            "Sniper", "FOMO Buyer", "Smart Money", "Declining",
            "Active Trader", "Dormant"} |->
        CASE n = "Diamond Hands" -> "U+94BB U+77F3 U+624B"
          [] n = "Paper Hands" -> "U+7EB8 U+624B"
          [] n = "Gambler" -> "U+9AD8 U+9891 U+8D4C U+5F92"
          [] n = "Conservative" -> "U+7A33 U+5065 U+6D3E"
          [] n = "One-Hit Wonder" -> "U+4E00 U+6218 U+6210 U+540D"
          [] n = "One-Token Pony" -> "U+5355 U+5E01 U+6218 U+58EB"
          [] n = "Suspicious" -> "U+7591 U+4F3C U+5185 U+5E55"
          [] n = "Whale" -> "U+5DE8 U+9CB8"
          [] n = "Sniper" -> "U+72D9 U+51FB U+624B"
          [] n = "FOMO Buyer" -> "U+0046 U+004F U+004D U+004F U+4E70 U+5BB6"
          [] n = "Smart Money" -> "U+806A U+660E U+94B1"
          [] n = "Declining" -> "U+8FD1 U+671F U+4E0B U+6ED1"
          [] n = "Active Trader" -> "U+6D3B U+8DC3 U+4EA4 U+6613 U+8005"
          [] n = "Dormant" -> "U+4F11 U+7720 U+8D26 U+6237"]

\* A metrics dictionary that triggers no rule.
QuietMetrics ==
    [avg_hold_time |-> Zero, top_trade_contribution |-> Zero,
     top_token_contribution |-> Zero, avg_time_before_pump |-> FromInt(60),
     trade_frequency |-> Zero, win_rate |-> Zero, profit_factor |-> Zero,
     sharpe_ratio |-> [num |-> Zero, den_sq |-> One],
     max_drawdown |-> Zero, alpha_pct |-> Zero,
     decay_alert |-> FALSE, recent_activity |-> TRUE, total_trades |-> 0,
     avg_trade_value |-> Zero]

IdleTG ==
    /\ analysis_results = QuietMetrics
    /\ TAGS = TagTable
    /\ tg_pc = "idle"
    /\ tags = <<>>
    /\ tags_first = <<>>

InitAB ==
    /\ wallet_returns \in WalletSeries
    /\ eth_returns \in EthSeries
    /\ ab_pc = "call"
    /\ ab_result = NoResult
    /\ IdleRM
    /\ IdleTD
    /\ IdleTG
    /\ IdleIN
    /\ IdleOuter

NextAB == AB_ReturnEmpty \/ AB_ReturnShort \/ AB_ReturnComputed

SpecAB == InitAB /\ [][NextAB]_vars

\* ------------------------------------------------------------ risk metrics
\* Irrational results are kept in closed form, never rounded:
\*   a surd   [num, den_sq]    stands for num / sqrt(den_sq), den_sq > 0;
\*   a root   [sq]             stands for sqrt(sq);
\*   a power  [base, periods]  stands for base^(PeriodsPerYear/periods) - 1;
\*   a quotient [ann, div]     stands for the power ann divided by div > 0.
\* Each form has one representation of 0.0.
Inf == <<1, 0>>
IsNaN(r) == r = NaN
SurdZero == [num |-> Zero, den_sq |-> One]
Surd(num, den_sq) ==
    IF num = Zero THEN SurdZero ELSE [num |-> num, den_sq |-> den_sq]
RootZero == [sq |-> Zero]
PowerZero == [base |-> One, periods |-> 1]
Power(base, periods) ==
    IF base = One THEN PowerZero ELSE [base |-> base, periods |-> periods]
QuotZero == [ann |-> PowerZero, div |-> One]
Quot(ann, div) == IF ann = PowerZero THEN QuotZero ELSE [ann |-> ann, div |-> div]

\* _empty_metrics
EmptyMetrics ==
    [sharpe_ratio |-> SurdZero, sortino_ratio |-> SurdZero,
     max_drawdown |-> Zero, calmar_ratio |-> QuotZero,
     annual_return |-> PowerZero, annual_volatility |-> RootZero,
     win_rate |-> Zero, profit_factor |-> Zero, expected_value |-> Zero,
     max_win_streak |-> 0, max_loss_streak |-> 0]

\* returns[returns < bound] / returns[returns > bound]
RECURSIVE Below(_, _)
Below(xs, bound) ==
    IF xs = <<>> THEN <<>>
    ELSE (IF RLt(xs[1], bound) THEN <<xs[1]>> ELSE <<>>) \o Below(Tail(xs), bound)
RECURSIVE Above(_, _)
Above(xs, bound) ==
    IF xs = <<>> THEN <<>>
    ELSE (IF RGt(xs[1], bound) THEN <<xs[1]>> ELSE <<>>) \o Above(Tail(xs), bound)

\* Series.std() ** 2: NaN for a single sample (ddof = 1).
StdSq(xs) == IF Len(xs) < 2 THEN NaN ELSE Var(xs)

\* (1 + returns).cumprod()
CumProd(xs) == [i \in 1..Len(xs) |->
                  ProdSeq([j \in 1..i |-> RAdd(One, xs[j])])]
\* cumulative.cummax()
RECURSIVE MaxSeq(_)
MaxSeq(xs) == IF Len(xs) = 1 THEN xs[1] ELSE RMax(xs[1], MaxSeq(Tail(xs)))
CumMax(cs) == [i \in 1..Len(cs) |-> MaxSeq(SubSeq(cs, 1, i))]
\* (cumulative - running_max) / running_max, 0/0 being NaN
Drawdown(xs) ==
    LET cumulative == CumProd(xs)
        running_max == CumMax(cumulative)
    IN  [i \in 1..Len(xs) |->
            IF running_max[i] = Zero THEN NaN
            ELSE RDiv(RSub(cumulative[i], running_max[i]), running_max[i])]
\* Series.min(): the least defined entry, NaN when there is none.
RECURSIVE MinSkipNaN(_)
MinSkipNaN(xs) ==
    IF xs = <<>> THEN NaN
    ELSE LET rest == MinSkipNaN(Tail(xs))
         IN  IF IsNaN(xs[1]) THEN rest
             ELSE IF IsNaN(rest) THEN xs[1]
             ELSE RMin(xs[1], rest)
\* drawdown.min()
MaxDrawdown(xs) == MinSkipNaN(Drawdown(xs))

\* the division without its zero-volatility guard
SharpeRatio_Unguarded(excess_mean, vol_sq, ppy) ==
    Surd(RMul(excess_mean, FromInt(ppy)), vol_sq)

\* sharpe_ratio = (excess.mean() * ppy) / annual_volatility if
\* annual_volatility > 0 else 0.0; vol_sq is annual_volatility squared.
SharpeRatio(excess_mean, vol_sq, ppy) ==
    IF RGt(vol_sq, Zero)
    THEN Surd(RMul(excess_mean, FromInt(ppy)), vol_sq)
    ELSE SurdZero

\* sortino_ratio (lines 89-94)
SortinoRatio(xs, excess_mean, daily_rf, ppy) ==
    LET downside_returns == Below(xs, daily_rf)
        std_sq == StdSq(downside_returns)
    IN  IF Len(downside_returns) > 0
        THEN (IF ~IsNaN(std_sq) /\ RGt(std_sq, Zero)
              THEN Surd(RMul(excess_mean, FromInt(ppy)),
                        RMul(std_sq, FromInt(ppy)))
              ELSE SurdZero)
        ELSE SurdZero

\* the guard written with >= in place of >
CalmarRatio_AtEpsilon(annual_return, max_drawdown) ==
    IF ~IsNaN(max_drawdown) /\ ~RLt(RAbs(max_drawdown), PctEpsilon)
    THEN Quot(annual_return, RAbs(max_drawdown))
    ELSE QuotZero

\* calmar_ratio = annual_return / abs(max_drawdown)
\*                if abs(max_drawdown) > 0.0001 else 0.0
CalmarRatio(annual_return, max_drawdown) ==
    IF ~IsNaN(max_drawdown) /\ RGt(RAbs(max_drawdown), PctEpsilon)
    THEN Quot(annual_return, RAbs(max_drawdown))
    ELSE QuotZero

\* _calculate_manually
CalculateManually(xs, rf, ppy) ==
    LET daily_rf == RDiv(rf, FromInt(ppy))
        total_return == TotalReturn(xs)
        n_periods == Len(xs)
        annual_return == Power(RAdd(One, total_return), n_periods)
        vol_sq == RMul(Var(xs), FromInt(ppy))
        excess_mean == Mean([i \in 1..Len(xs) |-> RSub(xs[i], daily_rf)])
        max_drawdown == MaxDrawdown(xs)
    IN  [sharpe_ratio |-> SharpeRatio(excess_mean, vol_sq, ppy),
         sortino_ratio |-> SortinoRatio(xs, excess_mean, daily_rf, ppy),
         max_drawdown |-> max_drawdown,
         calmar_ratio |-> CalmarRatio(annual_return, max_drawdown),
         annual_return |-> annual_return,
         annual_volatility |-> [sq |-> vol_sq]]

\* (series != series.shift()).cumsum(): the run each position belongs to
Groups(bits) ==
    [i \in 1..Len(bits) |->
        Cardinality({j \in 1..i : j = 1 \/ bits[j] # bits[j - 1]})]
\* max_streak: series.groupby(groups).sum().max(), 0 for an empty series
MaxStreak(bits) ==
    IF bits = <<>> THEN 0
    ELSE LET groups == Groups(bits)
             counts == [g \in {groups[i] : i \in 1..Len(bits)} |->
                          Cardinality({i \in 1..Len(bits) :
                                          groups[i] = g /\ bits[i] = 1})]
         IN  CHOOSE m \in {counts[g] : g \in DOMAIN counts} :
                \A g \in DOMAIN counts : counts[g] <= m

\* wins = (returns >= 0): a zero-return period counted as a win
CalculateStreaks_ZeroWins(xs) ==
    LET wins == [i \in 1..Len(xs) |-> IF RLt(xs[i], Zero) THEN 0 ELSE 1]
        losses == [i \in 1..Len(xs) |-> IF RLt(xs[i], Zero) THEN 1 ELSE 0]
    IN  <<MaxStreak(wins), MaxStreak(losses)>>

\* _calculate_streaks: <<max win streak, max loss streak>>
CalculateStreaks(xs) ==
    LET wins == [i \in 1..Len(xs) |-> IF RGt(xs[i], Zero) THEN 1 ELSE 0]
        losses == [i \in 1..Len(xs) |-> IF RLt(xs[i], Zero) THEN 1 ELSE 0]
    IN  <<MaxStreak(wins), MaxStreak(losses)>>

\* the textbook policy: wins but no losses give infinity
ProfitFactor_InfWhenNoLoss(xs) ==
    LET winning_returns == Above(xs, Zero)
        losing_returns == Below(xs, Zero)
    IN  IF Len(winning_returns) > 0 /\ Len(losing_returns) > 0
        THEN RDiv(Mean(winning_returns), RAbs(Mean(losing_returns)))
        ELSE IF Len(winning_returns) > 0 THEN Inf ELSE Zero

\* profit_factor (lines 121-129)
ProfitFactor(xs) ==
    LET winning_returns == Above(xs, Zero)
        losing_returns == Below(xs, Zero)
    IN  IF Len(winning_returns) > 0 /\ Len(losing_returns) > 0
        THEN LET avg_win == Mean(winning_returns)
                 avg_loss == RAbs(Mean(losing_returns))
             IN  IF RGt(avg_loss, Zero) THEN RDiv(avg_win, avg_loss) ELSE Inf
        ELSE Zero

\* _calculate_additional_metrics
CalculateAdditionalMetrics(xs) ==
    LET streaks == CalculateStreaks(xs)
    IN  [win_rate |-> Rat(Len(Above(xs, Zero)), Len(xs)),
         profit_factor |-> ProfitFactor(xs),
         expected_value |-> Mean(xs),
         max_win_streak |-> streaks[1],
         max_loss_streak |-> streaks[2]]

\* metrics.update(additional): one dictionary with the eleven keys
Merge(f, g) ==
    [k \in DOMAIN f \cup DOMAIN g |-> IF k \in DOMAIN g THEN g[k] ELSE f[k]]

\* len(returns) < 2
TooFewReturns_OffByOne(n) == n <= 2
TooFewReturns(n) == n < 2

\* returns_series.dropna() as the sequence of its defined values
DropNa(s) == Values(s, Defined(s))

\* if returns_series.empty or len(returns_series) < 2: return _empty_metrics()
RM_ReturnEmptyInput ==
    /\ rm_pc = "call"
    /\ IsEmpty(returns_series) \/ Cardinality(Index(returns_series)) < 2
    /\ rm_result' = EmptyMetrics
    /\ rm_pc' = "empty_input"
    /\ UNCHANGED <<returns_series, ab_vars, td_vars, tg_vars, in_vars, outer_vars>>

\* returns = returns_series.dropna(); if len(returns) < 2: return _empty_metrics()
RM_ReturnEmptyDropna ==
    /\ rm_pc = "call"
    /\ ~(IsEmpty(returns_series) \/ Cardinality(Index(returns_series)) < 2)
    /\ TooFewReturns(Len(DropNa(returns_series)))
    /\ rm_result' = EmptyMetrics
    /\ rm_pc' = "empty_dropna"
    /\ UNCHANGED <<returns_series, ab_vars, td_vars, tg_vars, in_vars, outer_vars>>

\* metrics = _calculate_manually(...); metrics.update(...); return metrics
RM_ReturnComputed ==
    /\ rm_pc = "call"
    /\ ~(IsEmpty(returns_series) \/ Cardinality(Index(returns_series)) < 2)
    /\ ~TooFewReturns(Len(DropNa(returns_series)))
    /\ rm_result' = Merge(CalculateManually(DropNa(returns_series),
                                            RiskFreeRate, PeriodsPerYear),
                          CalculateAdditionalMetrics(DropNa(returns_series)))
    /\ rm_pc' = "computed"
    /\ UNCHANGED <<returns_series, ab_vars, td_vars, tg_vars, in_vars, outer_vars>>

InitRM ==
    /\ returns_series \in RiskSeries
    /\ rm_pc = "call"
    /\ rm_result = NoResult
    /\ IdleAB
    /\ IdleTD
    /\ IdleTG
    /\ IdleIN
    /\ IdleOuter

NextRM == RM_ReturnEmptyInput \/ RM_ReturnEmptyDropna \/ RM_ReturnComputed

SpecRM == InitRM /\ [][NextRM]_vars

\* A day that loses one basis point, -0.01%: after a peak it is a drawdown
\* of exactly 0.0001, and two of them in a row one of 0.00019999.  A dip
\* series holds flat days and at most two such dips.
BasisPointDip == <<-1, 10000>>
DipSeries ==
    {s \in [Timestamps -> {Absent, NaN, Zero, BasisPointDip}] :
        Cardinality({t \in Timestamps : s[t] = BasisPointDip}) <= 2}

\* calculate_risk_metrics on a dip series
InitRMDip ==
    /\ returns_series \in DipSeries
    /\ rm_pc = "call"
    /\ rm_result = NoResult
    /\ IdleAB /\ IdleTD /\ IdleTG /\ IdleIN
    /\ IdleOuter

SpecRMDip == InitRMDip /\ [][NextRM]_vars

\* ------------------------------------------------------------ time decay
\* a 7d window that reaches back further than the 30d one
WindowDays_LongWeek == [k \in {"all_time", "90d", "30d", "7d"} |->
                          CASE k = "all_time" -> 0
                            [] k = "90d" -> 90
                            [] k = "30d" -> 30
                            [] k = "7d" -> 70]

\* windows = {"all_time": None, "90d": 90 days, "30d": 30 days, "7d": 7 days};
\* 0 stands for None.
WindowDays == [k \in {"all_time", "90d", "30d", "7d"} |->
                 CASE k = "all_time" -> 0
                   [] k = "90d" -> 90
                   [] k = "30d" -> 30
                   [] k = "7d" -> 7]

\* severe decay: the recent win rate is below 70% of the historical one
DecayFactor == <<7, 10>>

EmptyPeriod ==
    [pnl |-> Zero, win_rate |-> Zero, trade_count |-> 0,
     avg_pnl_per_trade |-> Zero]

\* activity_ratio defaulted to 1, as interpret_time_decay's lookup does
EmptyResult_ActivityOne ==
    [k \in DOMAIN WindowDays \cup {"decay_metrics"} |->
        IF k = "decay_metrics"
        THEN [win_rate_decay_30d |-> Zero, win_rate_decay_7d |-> Zero,
              severe_decay_alert |-> FALSE, recent_losing |-> FALSE,
              recent_30d_pnl |-> Zero, activity_ratio |-> One]
        ELSE EmptyPeriod]

\* _empty_result
EmptyResult ==
    [k \in DOMAIN WindowDays \cup {"decay_metrics"} |->
        IF k = "decay_metrics"
        THEN [win_rate_decay_30d |-> Zero, win_rate_decay_7d |-> Zero,
              severe_decay_alert |-> FALSE, recent_losing |-> FALSE,
              recent_30d_pnl |-> Zero, activity_ratio |-> Zero]
        ELSE EmptyPeriod]

\* a strict cutoff: df[df[timestamp_column] > cutoff]
RECURSIVE Since_Strict(_, _)
Since_Strict(df, cutoff) ==
    IF df = <<>> THEN <<>>
    ELSE (IF df[1].timestamp > cutoff THEN <<df[1]>> ELSE <<>>)
         \o Since_Strict(Tail(df), cutoff)

\* df[df[timestamp_column] >= cutoff], the records kept in ledger order
RECURSIVE Since(_, _)
Since(df, cutoff) ==
    IF df = <<>> THEN <<>>
    ELSE (IF df[1].timestamp >= cutoff THEN <<df[1]>> ELSE <<>>)
         \o Since(Tail(df), cutoff)

\* period_df for one window (lines 53-57)
PeriodDf(df, delta, now) == IF delta = 0 THEN df ELSE Since(df, now - delta)

\* results[period] (lines 59-76)
PeriodStats(period_df) ==
    IF period_df = <<>> THEN EmptyPeriod
    ELSE LET pnl_series == [i \in 1..Len(period_df) |-> period_df[i].realized_pnl]
             winning_trades == Len(Above(pnl_series, Zero))
             total_trades == Len(pnl_series)
         IN  [pnl |-> SumSeq(pnl_series),
              win_rate |-> IF total_trades > 0
                           THEN Rat(winning_trades, total_trades) ELSE Zero,
              trade_count |-> total_trades,
              avg_pnl_per_trade |-> IF total_trades > 0
                                    THEN Mean(pnl_series) ELSE Zero]

\* any drop of the recent win rate below the historical one
SevereDecay_AnyDrop(all_time_wr, recent_30d_wr) ==
    IF RGt(all_time_wr, Zero) THEN RLt(recent_30d_wr, all_time_wr) ELSE FALSE

\* severe_decay = recent_30d_wr < all_time_wr * 0.7 if all_time_wr > 0 else False
SevereDecay(all_time_wr, recent_30d_wr) ==
    IF RGt(all_time_wr, Zero)
    THEN RLt(recent_30d_wr, RMul(all_time_wr, DecayFactor))
    ELSE FALSE

\* the recent window taken to be the 90-day one
CalculateDecayMetrics_Recent90d(results) ==
    LET all_time_wr == results["all_time"].win_rate
        recent == results["90d"]
    IN  [win_rate_decay_30d |-> IF RGt(all_time_wr, Zero)
                                THEN RSub(all_time_wr, recent.win_rate)
                                ELSE Zero,
         win_rate_decay_7d |-> IF RGt(all_time_wr, Zero)
                               THEN RSub(all_time_wr, results["7d"].win_rate)
                               ELSE Zero,
         severe_decay_alert |-> SevereDecay(all_time_wr, recent.win_rate),
         recent_losing |-> RLt(recent.pnl, Zero),
         recent_30d_pnl |-> recent.pnl,
         activity_ratio |-> IF results["all_time"].trade_count > 0
                            THEN RDiv(FromInt(recent.trade_count * 365),
                                      FromInt(results["all_time"].trade_count * 30))
                            ELSE Zero]

\* _calculate_decay_metrics
CalculateDecayMetrics(results) ==
    LET all_time == results["all_time"]
        recent_30d == results["30d"]
        recent_7d == results["7d"]
        all_time_wr == all_time.win_rate
        recent_30d_wr == recent_30d.win_rate
        recent_7d_wr == recent_7d.win_rate
        recent_30d_pnl == recent_30d.pnl
        all_time_count == all_time.trade_count
        recent_30d_count == recent_30d.trade_count
        expected_30d_count == Rat(all_time_count * 30, 365)
    IN  [win_rate_decay_30d |-> IF RGt(all_time_wr, Zero)
                                THEN RSub(all_time_wr, recent_30d_wr) ELSE Zero,
         win_rate_decay_7d |-> IF RGt(all_time_wr, Zero)
                               THEN RSub(all_time_wr, recent_7d_wr) ELSE Zero,
         severe_decay_alert |-> SevereDecay(all_time_wr, recent_30d_wr),
         recent_losing |-> RLt(recent_30d_pnl, Zero),
         recent_30d_pnl |-> recent_30d_pnl,
         activity_ratio |-> IF all_time_count > 0
                            THEN (IF RGt(expected_30d_count, Zero)
                                  THEN RDiv(FromInt(recent_30d_count),
                                            expected_30d_count)
                                  ELSE One)
                            ELSE Zero]

\* the body of time_decay_analysis for a non-empty ledger (lines 37-81)
DecayAnalysis(df, now) ==
    LET results == [k \in DOMAIN WindowDays |->
                       PeriodStats(PeriodDf(df, WindowDays[k], now))]
    IN  [k \in DOMAIN WindowDays \cup {"decay_metrics"} |->
            IF k = "decay_metrics" THEN CalculateDecayMetrics(results)
            ELSE results[k]]

\* if trades_df.empty: return _empty_result()
TD_ReturnEmpty ==
    /\ td_pc = "call"
    /\ trades_df = <<>>
    /\ td_result' = EmptyResult
    /\ td_pc' = "empty"
    /\ UNCHANGED <<trades_df, clock, td_first, ab_vars, rm_vars, tg_vars, in_vars, outer_vars>>

\* now = datetime.now(); ...; return results
TD_ReturnComputed ==
    /\ td_pc = "call"
    /\ trades_df # <<>>
    /\ td_result' = DecayAnalysis(trades_df, clock)
    /\ td_pc' = "computed"
    /\ UNCHANGED <<trades_df, clock, td_first, ab_vars, rm_vars, tg_vars, in_vars, outer_vars>>

InitTD ==
    /\ trades_df \in Ledgers
    /\ clock \in ClockDays
    /\ td_pc = "call"
    /\ td_result = NoResult
    /\ td_first = NoResult
    /\ IdleAB
    /\ IdleRM
    /\ IdleTG
    /\ IdleIN
    /\ IdleOuter

NextTD == TD_ReturnEmpty \/ TD_ReturnComputed

SpecTD == InitTD /\ [][NextTD]_vars

\* The analysis is run once more on the same ledger (run_analysis calls
\* time_decay_analysis(trades_df) on every run); the wall clock has moved on
\* by 0 or more days and the earlier result is kept for comparison.
TD_CallAgain ==
    /\ td_pc \in {"empty", "computed"}
    /\ td_first = NoResult
    /\ td_first' = td_result
    /\ clock' \in {c \in ClockDays : c >= clock}
    /\ td_result' = NoResult
    /\ td_pc' = "call"
    /\ UNCHANGED <<trades_df, ab_vars, rm_vars, tg_vars, in_vars, outer_vars>>

NextTDTwice == NextTD \/ TD_CallAgain

SpecTDTwice == InitTD /\ [][NextTDTwice]_vars

\* ------------------------------------------------------------ behavior tags
\* config.py thresholds
DIAMOND_HANDS_MIN_HOLD_HOURS == 168
PAPER_HANDS_MAX_HOLD_HOURS == 24
ONE_HIT_WONDER_THRESHOLD == <<1, 2>>
SUSPICIOUS_TIME_BEFORE_PUMP_MINUTES == 60
HIGH_FREQUENCY_THRESHOLD == 10
LOW_WIN_RATE_THRESHOLD == <<2, 5>>

\* analysis_results.get(key, default)
Get(m, key, default) == IF key \in DOMAIN m THEN m[key] ELSE default

\* Float comparisons: false as soon as one side is NaN; float('inf') is
\* above every number.
FloatGt(a, b) ==
    /\ a # NaN
    /\ b # NaN
    /\ IF a = Inf THEN b # Inf ELSE IF b = Inf THEN FALSE ELSE RGt(a, b)
FloatLt(a, b) == FloatGt(b, a)
\* abs(x), NaN staying NaN
FloatAbs(x) == IF x = NaN THEN NaN ELSE RAbs(x)

\* The nearest integer to a rational, a tie going to the even neighbour.
RoundHalfEven(r) ==
    LET q == Num(r) \div Den(r)
        rem == Num(r) % Den(r)
    IN  IF 2 * rem < Den(r) THEN q
        ELSE IF 2 * rem > Den(r) THEN q + 1
        ELSE IF q % 2 = 0 THEN q ELSE q + 1
RECURSIVE Pow10(_)
Pow10(d) == IF d = 0 THEN 1 ELSE 10 * Pow10(d - 1)
\* f"{x:.<d>f}": x rounded to d decimals, held as a count of 10^-d units
Format(x, d) == RoundHalfEven(RMul(x, FromInt(Pow10(d))))

\* a/b < c/d for b, d > 0, by comparing the continued-fraction expansions
\* (no product is formed).
RECURSIVE FracLt(_, _, _, _)
FracLt(a, b, c, d) ==
    LET qa == a \div b
        ra == a % b
        qc == c \div d
        rc == c % d
    IN  IF qa # qc THEN qa < qc
        ELSE IF rc = 0 THEN FALSE
        ELSE IF ra = 0 THEN TRUE
        ELSE FracLt(d, rc, b, ra)

\* num / sqrt(den_sq) > c and < c, for a bound c > 0
SurdGt(s, c) ==
    /\ Num(s.num) > 0
    /\ LET lhs == RMul(RMul(c, c), s.den_sq)
           rhs == RMul(s.num, s.num)
       IN  FracLt(Num(lhs), Den(lhs), Num(rhs), Den(rhs))
SurdLt(s, c) ==
    \/ Num(s.num) <= 0
    \/ LET lhs == RMul(s.num, s.num)
           rhs == RMul(RMul(c, c), s.den_sq)
       IN  FracLt(Num(lhs), Den(lhs), Num(rhs), Den(rhs))

\* The largest k in lo..hi with k * k <= n (lo * lo <= n is required).
RECURSIVE ISqrtIn(_, _, _)
ISqrtIn(n, lo, hi) ==
    IF lo = hi THEN lo
    ELSE LET mid == (lo + hi + 1) \div 2
         IN  IF mid * mid <= n THEN ISqrtIn(n, mid, hi)
             ELSE ISqrtIn(n, lo, mid - 1)
\* floor(sqrt(n)) for 0 <= n < 2^31
ISqrt(n) == ISqrtIn(n, 0, IF n < 46340 THEN n ELSE 46340)

\* A float that is the rational r, written in the surd form of sharpe_ratio.
Exact(r) == Surd(r, One)

\* f"{sharpe:.2f}" for sharpe = num / sqrt(den_sq): sharpe rounded to d
\* decimals, a tie going to the even neighbour.
FormatSurd(s, d) ==
    LET scaled == RMul(RMul(s.num, s.num), FromInt(Pow10(d) * Pow10(d)))
        x == RDiv(scaled, s.den_sq)
        k == ISqrt(Num(x) \div Den(x))
        half == (2 * k + 1) * (2 * k + 1)
        up == FracLt(half, 4, Num(x), Den(x))
        tie == ~up /\ ~FracLt(Num(x), Den(x), half, 4)
        magnitude == IF up \/ (tie /\ k % 2 = 1) THEN k + 1 ELSE k
    IN  Rat((IF Num(s.num) < 0 THEN -1 ELSE 1) * magnitude, Pow10(d))

\* One f-string: its template and the formatted values filled in.
Description(text, args) == [text |-> text, args |-> args]
\* tags.append((tag.emoji, tag.name, description))
TagTuple(tag, description) == <<tag.emoji, tag.name, description>>

\* the hold-time rule without the avg_hold_time > 0 guard of its elif
HoldTags_NoPositiveGuard(m) ==
    LET avg_hold_time == Get(m, "avg_hold_time", Zero)
    IN  IF FloatGt(avg_hold_time, FromInt(DIAMOND_HANDS_MIN_HOLD_HOURS))
        THEN <<TagTuple(TAGS["diamond_hands"],
                  Description("avg hold {:.1f} days",
                      <<Format(RDiv(avg_hold_time, FromInt(24)), 1)>>))>>
        ELSE IF FloatLt(avg_hold_time, FromInt(PAPER_HANDS_MAX_HOLD_HOURS))
        THEN <<TagTuple(TAGS["paper_hands"],
                  Description("avg hold only {:.1f} hours",
                      <<Format(avg_hold_time, 1)>>))>>
        ELSE <<>>

\* lines 85-92: Diamond Hands, elif Paper Hands
HoldTags(m) ==
    LET avg_hold_time == Get(m, "avg_hold_time", Zero)
    IN  IF FloatGt(avg_hold_time, FromInt(DIAMOND_HANDS_MIN_HOLD_HOURS))
        THEN <<TagTuple(TAGS["diamond_hands"],
                  Description("avg hold {:.1f} days",
                      <<Format(RDiv(avg_hold_time, FromInt(24)), 1)>>))>>
        ELSE IF /\ FloatLt(avg_hold_time, FromInt(PAPER_HANDS_MAX_HOLD_HOURS))
                /\ FloatGt(avg_hold_time, Zero)
        THEN <<TagTuple(TAGS["paper_hands"],
                  Description("avg hold only {:.1f} hours",
                      <<Format(avg_hold_time, 1)>>))>>
        ELSE <<>>

\* the One-Hit Wonder rule appending the One-Token Pony tag as well
OneHitWonderTags_AlsoPony(m) ==
    LET top_contribution == Get(m, "top_trade_contribution", Zero)
    IN  IF FloatGt(top_contribution, ONE_HIT_WONDER_THRESHOLD)
        THEN <<TagTuple(TAGS["one_hit_wonder"],
                  Description("single trade contributed {:.0f}% of gains",
                      <<Format(RMul(top_contribution, FromInt(100)), 0)>>)),
               TagTuple(TAGS["one_token_pony"],
                  Description("{:.0f}% of gains from one token",
                      <<Format(RMul(top_contribution, FromInt(100)), 0)>>))>>
        ELSE <<>>

\* lines 94-98: One-Hit Wonder
OneHitWonderTags(m) ==
    LET top_contribution == Get(m, "top_trade_contribution", Zero)
    IN  IF FloatGt(top_contribution, ONE_HIT_WONDER_THRESHOLD)
        THEN <<TagTuple(TAGS["one_hit_wonder"],
                  Description("single trade contributed {:.0f}% of gains",
                      <<Format(RMul(top_contribution, FromInt(100)), 0)>>))>>
        ELSE <<>>

\* lines 100-104: One-Token Pony
OneTokenPonyTags(m) ==
    LET top_token_contribution == Get(m, "top_token_contribution", Zero)
    IN  IF FloatGt(top_token_contribution, <<4, 5>>)
        THEN <<TagTuple(TAGS["one_token_pony"],
                  Description("{:.0f}% of gains from one token",
                      <<Format(RMul(top_token_contribution, FromInt(100)), 0)>>))>>
        ELSE <<>>

\* lines 106-110: Suspicious
SuspiciousTags(m) ==
    LET avg_time_before_pump == Get(m, "avg_time_before_pump", Inf)
    IN  IF FloatLt(avg_time_before_pump,
                   FromInt(SUSPICIOUS_TIME_BEFORE_PUMP_MINUTES))
        THEN <<TagTuple(TAGS["suspicious"],
                  Description("bought {:.0f} minutes before pumps on average",
                      <<Format(avg_time_before_pump, 0)>>))>>
        ELSE <<>>

\* the elif branch appending the sniper tag it looks up
GamblerTags_SniperInPlace(m) ==
    LET trade_frequency == Get(m, "trade_frequency", Zero)
        win_rate == Get(m, "win_rate", Zero)
        profit_factor == Get(m, "profit_factor", Zero)
    IN  IF FloatGt(trade_frequency, FromInt(HIGH_FREQUENCY_THRESHOLD))
        THEN IF FloatLt(win_rate, LOW_WIN_RATE_THRESHOLD)
             THEN IF FloatLt(profit_factor, One)
                  THEN <<TagTuple(TAGS["gambler"],
                            Description("high frequency but losing (PF: {:.2f})",
                                <<Format(profit_factor, 2)>>))>>
                  ELSE IF FloatGt(profit_factor, <<3, 2>>)
                  THEN <<TagTuple(TAGS["sniper"],
                            Description("high risk, high reward", <<>>))>>
                  ELSE <<>>
             ELSE <<>>
        ELSE <<>>

\* lines 112-128: Gambler; the elif branch looks the sniper tag up and
\* appends nothing
GamblerTags(m) ==
    LET trade_frequency == Get(m, "trade_frequency", Zero)
        win_rate == Get(m, "win_rate", Zero)
        profit_factor == Get(m, "profit_factor", Zero)
    IN  IF FloatGt(trade_frequency, FromInt(HIGH_FREQUENCY_THRESHOLD))
        THEN IF FloatLt(win_rate, LOW_WIN_RATE_THRESHOLD)
             THEN IF FloatLt(profit_factor, One)
                  THEN <<TagTuple(TAGS["gambler"],
                            Description("high frequency but losing (PF: {:.2f})",
                                <<Format(profit_factor, 2)>>))>>
                  ELSE IF FloatGt(profit_factor, <<3, 2>>)
                  THEN <<>>
                  ELSE <<>>
             ELSE <<>>
        ELSE <<>>

\* lines 130-133: Sniper
SniperTags(m) ==
    LET trade_frequency == Get(m, "trade_frequency", Zero)
        win_rate == Get(m, "win_rate", Zero)
        profit_factor == Get(m, "profit_factor", Zero)
    IN  IF /\ FloatGt(win_rate, <<7, 10>>)
           /\ FloatLt(trade_frequency, FromInt(5))
           /\ FloatGt(profit_factor, <<3, 2>>)
        THEN <<TagTuple(TAGS["sniper"],
                  Description("win rate {:.0f}%, profit factor {:.2f}",
                      <<Format(RMul(win_rate, FromInt(100)), 0),
                        Format(profit_factor, 2)>>))>>
        ELSE <<>>

\* lines 135-140: Conservative
ConservativeTags(m) ==
    LET sharpe == Get(m, "sharpe_ratio", SurdZero)
        max_dd == FloatAbs(Get(m, "max_drawdown", Zero))
    IN  IF SurdGt(sharpe, FromInt(2)) /\ FloatLt(max_dd, <<1, 5>>)
        THEN <<TagTuple(TAGS["conservative"],
                  Description("sharpe {:.2f}, max drawdown only {:.0f}%",
                      <<FormatSurd(sharpe, 2),
                        Format(RMul(max_dd, FromInt(100)), 0)>>))>>
        ELSE <<>>

\* lines 142-146: Smart Money
SmartMoneyTags(m) ==
    LET alpha_pct == Get(m, "alpha_pct", Zero)
        win_rate == Get(m, "win_rate", Zero)
        sharpe == Get(m, "sharpe_ratio", SurdZero)
    IN  IF /\ FloatGt(alpha_pct, FromInt(60))
           /\ FloatGt(win_rate, <<3, 5>>)
           /\ SurdGt(sharpe, <<3, 2>>)
        THEN <<TagTuple(TAGS["smart_money"],
                  Description("alpha share {:.0f}%, excellent overall",
                      <<Format(alpha_pct, 0)>>))>>
        ELSE <<>>

\* lines 148-151: Declining
DecliningTags(m) ==
    IF Get(m, "decay_alert", FALSE)
    THEN <<TagTuple(TAGS["declining"],
              Description("recent performance well below history", <<>>))>>
    ELSE <<>>

\* both activity rules tested on their own: if ... if
ActivityTags_IfIf(m) ==
    LET recent_activity == Get(m, "recent_activity", TRUE)
        total_trades == Get(m, "total_trades", 0)
        trade_frequency == Get(m, "trade_frequency", Zero)
    IN  (IF ~recent_activity /\ total_trades > 0
         THEN <<TagTuple(TAGS["dormant"],
                   Description("no trade in the last 30 days", <<>>))>>
         ELSE <<>>)
        \o (IF FloatGt(trade_frequency, FromInt(5))
            THEN <<TagTuple(TAGS["active_trader"],
                      Description("{:.1f} trades a day on average",
                          <<Format(trade_frequency, 1)>>))>>
            ELSE <<>>)

\* lines 153-162: Dormant, elif Active Trader
ActivityTags(m) ==
    LET recent_activity == Get(m, "recent_activity", TRUE)
        total_trades == Get(m, "total_trades", 0)
        trade_frequency == Get(m, "trade_frequency", Zero)
    IN  IF ~recent_activity /\ total_trades > 0
        THEN <<TagTuple(TAGS["dormant"],
                  Description("no trade in the last 30 days", <<>>))>>
        ELSE IF FloatGt(trade_frequency, FromInt(5))
        THEN <<TagTuple(TAGS["active_trader"],
                  Description("{:.1f} trades a day on average",
                      <<Format(trade_frequency, 1)>>))>>
        ELSE <<>>

\* lines 164-168: Whale
WhaleTags(m) ==
    LET avg_trade_value == Get(m, "avg_trade_value", Zero)
    IN  IF FloatGt(avg_trade_value, FromInt(50000))
        THEN <<TagTuple(TAGS["whale"],
                  Description("average trade value ${:,.0f}",
                      <<Format(avg_trade_value, 0)>>))>>
        ELSE <<>>

\* the hold-time rule evaluated once more after the whale rule
GenerateBehaviorTags_HoldTwice(m) ==
    HoldTags(m) \o OneHitWonderTags(m) \o OneTokenPonyTags(m)
    \o SuspiciousTags(m) \o GamblerTags(m) \o SniperTags(m)
    \o ConservativeTags(m) \o SmartMoneyTags(m) \o DecliningTags(m)
    \o ActivityTags(m) \o WhaleTags(m) \o HoldTags(m)

\* the whale rule evaluated first
GenerateBehaviorTags_WhaleFirst(m) ==
    WhaleTags(m) \o HoldTags(m) \o OneHitWonderTags(m) \o OneTokenPonyTags(m)
    \o SuspiciousTags(m) \o GamblerTags(m) \o SniperTags(m)
    \o ConservativeTags(m) \o SmartMoneyTags(m) \o DecliningTags(m)
    \o ActivityTags(m)

\* generate_behavior_tags: tags = [], the rules in source order, return tags
GenerateBehaviorTags(m) ==
    HoldTags(m) \o OneHitWonderTags(m) \o OneTokenPonyTags(m)
    \o SuspiciousTags(m) \o GamblerTags(m) \o SniperTags(m)
    \o ConservativeTags(m) \o SmartMoneyTags(m) \o DecliningTags(m)
    \o ActivityTags(m) \o WhaleTags(m)

\* generate_behavior_tags inputs: metrics dictionaries holding every key.
\* CoreMetrics varies all fourteen keys together, each over one value on
\* either side of its rule; EdgeMetrics puts the keys of one rule group on
\* and around the thresholds, the other keys being those of a base dict.
CoreMetrics ==
    [avg_hold_time : {Zero, FromInt(12), FromInt(200)},
     top_trade_contribution : {<<1, 2>>, <<3, 5>>},
     top_token_contribution : {<<4, 5>>, <<9, 10>>},
     avg_time_before_pump : {FromInt(30), FromInt(60)},
     trade_frequency : {FromInt(3), FromInt(8), FromInt(12)},
     win_rate : {<<3, 10>>, <<4, 5>>},
     profit_factor : {<<1, 2>>, FromInt(2)},
     sharpe_ratio : {Exact(One), Exact(<<5, 2>>)},
     max_drawdown : {<<-1, 10>>, <<-1, 2>>},
     alpha_pct : {FromInt(60), FromInt(70)},
     decay_alert : BOOLEAN,
     recent_activity : BOOLEAN,
     total_trades : {0, 5},
     avg_trade_value : {FromInt(50000), FromInt(60000)}]

\* A metrics dictionary that triggers ten rules.
BusyMetrics ==
    [avg_hold_time |-> FromInt(200), top_trade_contribution |-> <<3, 5>>,
     top_token_contribution |-> <<9, 10>>, avg_time_before_pump |-> FromInt(30),
     trade_frequency |-> FromInt(3), win_rate |-> <<4, 5>>,
     profit_factor |-> FromInt(2), sharpe_ratio |-> Exact(<<5, 2>>),
     max_drawdown |-> <<-1, 10>>, alpha_pct |-> FromInt(70),
     decay_alert |-> TRUE, recent_activity |-> FALSE, total_trades |-> 5,
     avg_trade_value |-> FromInt(60000)]

BaseMetrics == {QuietMetrics, BusyMetrics}

EdgeMetrics ==
    {[b EXCEPT !.avg_hold_time = h] :
        b \in BaseMetrics, h \in {FromInt(24), FromInt(168)}}
    \cup {[b EXCEPT !.trade_frequency = f, !.win_rate = w,
                    !.profit_factor = p, !.recent_activity = r] :
            b \in BaseMetrics,
            f \in {FromInt(3), FromInt(5), FromInt(10), FromInt(12)},
            w \in {<<3, 10>>, <<2, 5>>, <<7, 10>>, <<4, 5>>},
            p \in {<<1, 2>>, One, <<3, 2>>, FromInt(2)},
            r \in BOOLEAN}
    \cup {[b EXCEPT !.sharpe_ratio = s, !.max_drawdown = d,
                    !.win_rate = w, !.alpha_pct = a] :
            b \in BaseMetrics,
            s \in {Exact(One), Exact(<<3, 2>>), Exact(FromInt(2)),
                   Exact(<<5, 2>>), Surd(FromInt(3), FromInt(2)),
                   Surd(FromInt(3), FromInt(4))},
            d \in {Zero, <<-1, 10>>, <<-1, 5>>, <<-1, 2>>, NaN},
            w \in {<<3, 5>>, <<13, 20>>},
            a \in {FromInt(60), FromInt(70)}}

\* The dictionaries of the debug script: most keys are left out.
DebugMetrics ==
    {[top_token_contribution |-> <<100, 101>>, profit_factor |-> One],
     [trade_frequency |-> FromInt(20), win_rate |-> <<3, 10>>,
      profit_factor |-> <<5, 2>>, top_token_contribution |-> <<1, 10>>],
     [trade_frequency |-> FromInt(20), win_rate |-> <<3, 10>>,
      profit_factor |-> <<1, 2>>, top_token_contribution |-> <<1, 10>>]}

MetricsDicts == CoreMetrics \cup EdgeMetrics \cup DebugMetrics

\* a call that takes decay_alert out of its input:
\* analysis_results.pop("decay_alert", False)
TG_Return_PopsAlert ==
    /\ tg_pc \in {"call", "call_again"}
    /\ tags' = GenerateBehaviorTags(analysis_results)
    /\ analysis_results' = [k \in DOMAIN analysis_results \ {"decay_alert"} |->
                                analysis_results[k]]
    /\ tg_pc' = IF tg_pc = "call" THEN "returned" ELSE "returned_again"
    /\ UNCHANGED <<TAGS, tags_first>>
    /\ UNCHANGED <<ab_vars, rm_vars, td_vars, in_vars, outer_vars>>

\* the call: tags = [], the rules, return tags (line 170)
TG_Return ==
    /\ tg_pc \in {"call", "call_again"}
    /\ tags' = GenerateBehaviorTags(analysis_results)
    /\ tg_pc' = IF tg_pc = "call" THEN "returned" ELSE "returned_again"
    /\ UNCHANGED <<analysis_results, TAGS, tags_first>>
    /\ UNCHANGED <<ab_vars, rm_vars, td_vars, in_vars, outer_vars>>

\* The classifier is called once more on the same dictionary (the debug
\* script and every rerun of the analysis call it again); the earlier list
\* is kept for comparison.
TG_CallAgain ==
    /\ tg_pc = "returned"
    /\ tags_first' = tags
    /\ tags' = <<>>
    /\ tg_pc' = "call_again"
    /\ UNCHANGED <<analysis_results, TAGS>>
    /\ UNCHANGED <<ab_vars, rm_vars, td_vars, in_vars, outer_vars>>

InitTG ==
    /\ analysis_results \in MetricsDicts
    /\ TAGS = TagTable
    /\ tg_pc = "call"
    /\ tags = <<>>
    /\ tags_first = <<>>
    /\ IdleAB
    /\ IdleRM
    /\ IdleTD
    /\ IdleIN
    /\ IdleOuter

NextTG == TG_Return \/ TG_CallAgain

SpecTG == InitTG /\ [][NextTG]_vars

\* ------------------------------------------------------------ interpreters
\* a >= b on floats, false as soon as one side is NaN
FloatGe(a, b) == a # NaN /\ b # NaN /\ ~FloatLt(a, b)

\* alpha_beta.py lines 147-160: beta_text, beta_level
BetaBand(beta) ==
    IF FloatGt(beta, <<3, 2>>)
    THEN [beta_text |-> Description("leveraged: swings more than ETH", <<>>),
          beta_level |-> "high"]
    ELSE IF FloatGt(beta, One)
    THEN [beta_text |-> Description("aggressive: slightly above market", <<>>),
          beta_level |-> "medium_high"]
    ELSE IF FloatGt(beta, <<1, 2>>)
    THEN [beta_text |-> Description("steady: moderately correlated", <<>>),
          beta_level |-> "medium"]
    ELSE [beta_text |-> Description("independent: low correlation with ETH", <<>>),
          beta_level |-> "low"]

\* alpha_beta.py lines 162-178: alpha_text, alpha_level
AlphaBand(alpha) ==
    IF FloatGt(alpha, <<3, 10>>)
    THEN [alpha_text |-> Description("outstanding alpha", <<>>),
          alpha_level |-> "excellent"]
    ELSE IF FloatGt(alpha, <<1, 10>>)
    THEN [alpha_text |-> Description("good alpha", <<>>),
          alpha_level |-> "good"]
    ELSE IF FloatGt(alpha, Zero)
    THEN [alpha_text |-> Description("positive alpha", <<>>),
          alpha_level |-> "positive"]
    ELSE IF FloatGt(alpha, <<-1, 10>>)
    THEN [alpha_text |-> Description("near-zero alpha", <<>>),
          alpha_level |-> "neutral"]
    ELSE [alpha_text |-> Description("negative alpha", <<>>),
          alpha_level |-> "negative"]

\* alpha_beta.py lines 180-208: attribution_text, is_skill_based
AttributionBand(alpha_pct, beta_pct, total_return) ==
    LET is_positive == FloatGe(total_return, Zero)
    IN  IF is_positive
        THEN IF FloatGt(alpha_pct, FromInt(70))
             THEN [attribution_text |->
                      Description("True Skill! {:.0f}% of gains from Alpha",
                                  <<Format(alpha_pct, 0)>>),
                   is_skill_based |-> TRUE]
             ELSE IF FloatGt(alpha_pct, FromInt(50))
             THEN [attribution_text |->
                      Description("Skilled: {:.0f}% of gains from Alpha",
                                  <<Format(alpha_pct, 0)>>),
                   is_skill_based |-> TRUE]
             ELSE IF FloatGt(alpha_pct, FromInt(30))
             THEN [attribution_text |->
                      Description("Limited Skill: {:.0f}% of gains from Market",
                                  <<Format(beta_pct, 0)>>),
                   is_skill_based |-> FALSE]
             ELSE [attribution_text |->
                      Description("Lucky! {:.0f}% of gains from Market Beta",
                                  <<Format(beta_pct, 0)>>),
                   is_skill_based |-> FALSE]
        ELSE IF FloatGt(alpha_pct, FromInt(70))
             THEN [attribution_text |->
                      Description("Strategy Failure: {:.0f}% of losses from decisions",
                                  <<Format(alpha_pct, 0)>>),
                   is_skill_based |-> TRUE]
             ELSE IF FloatGt(alpha_pct, FromInt(30))
             THEN [attribution_text |->
                      Description("Poor Execution: Mixed losses from strategy and market",
                                  <<>>),
                   is_skill_based |-> TRUE]
             ELSE [attribution_text |->
                      Description("Market Victim: {:.0f}% of losses from Market",
                                  <<Format(beta_pct, 0)>>),
                   is_skill_based |-> FALSE]

\* interpret_alpha_beta
InterpretAlphaBeta(result) ==
    Merge(Merge(BetaBand(Get(result, "beta", Zero)),
                AlphaBand(Get(result, "alpha", Zero))),
          AttributionBand(Get(result, "alpha_pct", Zero),
                          Get(result, "beta_pct", Zero),
                          Get(result, "total_return", Zero)))

\* risk_metrics.py lines 191-204: sharpe_text, sharpe_level
SharpeBand(sharpe) ==
    IF SurdGt(sharpe, FromInt(2))
    THEN [sharpe_text |-> Description("excellent", <<>>),
          sharpe_level |-> "excellent"]
    ELSE IF SurdGt(sharpe, One)
    THEN [sharpe_text |-> Description("good", <<>>), sharpe_level |-> "good"]
    ELSE IF SurdGt(sharpe, <<1, 2>>)
    THEN [sharpe_text |-> Description("average", <<>>),
          sharpe_level |-> "average"]
    ELSE [sharpe_text |-> Description("poor", <<>>), sharpe_level |-> "poor"]

\* the last band tested on its own (elif mdd >= 0.4) instead of an else
DrawdownBand_NoElse(mdd) ==
    IF FloatLt(mdd, <<1, 10>>)
    THEN [drawdown_text |-> Description("very low", <<>>),
          drawdown_level |-> "excellent"]
    ELSE IF FloatLt(mdd, <<1, 5>>)
    THEN [drawdown_text |-> Description("low", <<>>),
          drawdown_level |-> "good"]
    ELSE IF FloatLt(mdd, <<2, 5>>)
    THEN [drawdown_text |-> Description("medium", <<>>),
          drawdown_level |-> "average"]
    ELSE IF FloatGe(mdd, <<2, 5>>)
    THEN [drawdown_text |-> Description("high", <<>>),
          drawdown_level |-> "poor"]
    ELSE [k \in {} |-> "none"]

\* risk_metrics.py lines 206-219: drawdown_text, drawdown_level
DrawdownBand(mdd) ==
    IF FloatLt(mdd, <<1, 10>>)
    THEN [drawdown_text |-> Description("very low", <<>>),
          drawdown_level |-> "excellent"]
    ELSE IF FloatLt(mdd, <<1, 5>>)
    THEN [drawdown_text |-> Description("low", <<>>),
          drawdown_level |-> "good"]
    ELSE IF FloatLt(mdd, <<2, 5>>)
    THEN [drawdown_text |-> Description("medium", <<>>),
          drawdown_level |-> "average"]
    ELSE [drawdown_text |-> Description("high", <<>>),
          drawdown_level |-> "poor"]

\* risk_metrics.py lines 221-234: profit_factor_text, profit_factor_level
ProfitFactorBand(profit_factor) ==
    IF FloatGt(profit_factor, FromInt(2))
    THEN [profit_factor_text |-> Description("excellent", <<>>),
          profit_factor_level |-> "excellent"]
    ELSE IF FloatGt(profit_factor, <<3, 2>>)
    THEN [profit_factor_text |-> Description("good", <<>>),
          profit_factor_level |-> "good"]
    ELSE IF FloatGt(profit_factor, One)
    THEN [profit_factor_text |-> Description("average", <<>>),
          profit_factor_level |-> "average"]
    ELSE [profit_factor_text |-> Description("poor", <<>>),
          profit_factor_level |-> "poor"]

\* risk_metrics.py lines 236-243: risk_profile
RiskProfile(sharpe, mdd) ==
    IF SurdGt(sharpe, <<3, 2>>) /\ FloatLt(mdd, <<1, 5>>)
    THEN [risk_profile |-> Description("steady: low risk, high return", <<>>)]
    ELSE IF SurdGt(sharpe, One) /\ FloatGt(mdd, <<2, 5>>)
    THEN [risk_profile |-> Description("high risk, high return", <<>>)]
    ELSE IF SurdLt(sharpe, <<1, 2>>) /\ FloatGt(mdd, <<3, 10>>)
    THEN [risk_profile |-> Description("high risk, low return", <<>>)]
    ELSE [risk_profile |-> Description("balanced", <<>>)]

\* interpret_risk_metrics
InterpretRiskMetrics(metrics) ==
    LET sharpe == Get(metrics, "sharpe_ratio", SurdZero)
        mdd == FloatAbs(Get(metrics, "max_drawdown", Zero))
        profit_factor == Get(metrics, "profit_factor", Zero)
    IN  Merge(Merge(SharpeBand(sharpe), DrawdownBand(mdd)),
              Merge(ProfitFactorBand(profit_factor), RiskProfile(sharpe, mdd)))

\* time_decay.py lines 178-187: main_alert, alert_level
AlertBand(decay) ==
    IF Get(decay, "severe_decay_alert", FALSE)
    THEN [main_alert |-> Description("warning: recent performance dropped markedly", <<>>),
          alert_level |-> "high"]
    ELSE IF Get(decay, "recent_losing", FALSE)
    THEN [main_alert |-> Description("note: losing over the last 30 days", <<>>),
          alert_level |-> "medium"]
    ELSE [main_alert |-> Description("stable: recent performance in line with history", <<>>),
          alert_level |-> "low"]

\* time_decay.py lines 189-198: win_rate_trend
WinRateTrend(wr_decay) ==
    IF FloatGt(wr_decay, <<1, 5>>)
    THEN [win_rate_trend |->
             Description("win rate down sharply {:.0%}",
                         <<Format(RMul(wr_decay, FromInt(100)), 0)>>)]
    ELSE IF FloatGt(wr_decay, <<1, 10>>)
    THEN [win_rate_trend |->
             Description("win rate down {:.0%}",
                         <<Format(RMul(wr_decay, FromInt(100)), 0)>>)]
    ELSE IF FloatLt(wr_decay, <<-1, 10>>)
    THEN [win_rate_trend |->
             Description("win rate up {:.0%}",
                         <<Format(RMul(FloatAbs(wr_decay), FromInt(100)), 0)>>)]
    ELSE [win_rate_trend |-> Description("win rate stable", <<>>)]

\* time_decay.py lines 200-209: activity_text
ActivityText(activity) ==
    IF FloatLt(activity, <<3, 10>>)
    THEN [activity_text |-> Description("trading far less often, maybe inactive", <<>>)]
    ELSE IF FloatLt(activity, <<7, 10>>)
    THEN [activity_text |-> Description("trading less often", <<>>)]
    ELSE IF FloatGt(activity, <<3, 2>>)
    THEN [activity_text |-> Description("trading more often", <<>>)]
    ELSE [activity_text |-> Description("trading as often as before", <<>>)]

\* time_decay.py lines 211-222: summary
Summary(all_time_pnl, recent_pnl) ==
    IF FloatGt(all_time_pnl, Zero) /\ FloatLt(recent_pnl, Zero)
    THEN [summary |->
             Description("gains came early; lost ${:,.0f} in the last 30 days",
                         <<Format(FloatAbs(recent_pnl), 0)>>)]
    ELSE IF FloatGt(all_time_pnl, Zero) /\ FloatGt(recent_pnl, Zero)
    THEN [summary |->
             Description("still profitable; made ${:,.0f} in the last 30 days",
                         <<Format(recent_pnl, 0)>>)]
    ELSE IF FloatLt(all_time_pnl, Zero)
    THEN [summary |-> Description("losing overall, not worth copying", <<>>)]
    ELSE [summary |-> Description("not enough data to judge", <<>>)]

\* interpret_time_decay
InterpretTimeDecay(result) ==
    LET decay == Get(result, "decay_metrics", [k \in {} |-> Zero])
        all_time_pnl == Get(Get(result, "all_time", [k \in {} |-> Zero]),
                            "pnl", Zero)
        recent_pnl == Get(Get(result, "30d", [k \in {} |-> Zero]), "pnl", Zero)
    IN  Merge(Merge(AlertBand(decay),
                    WinRateTrend(Get(decay, "win_rate_decay_30d", Zero))),
              Merge(ActivityText(Get(decay, "activity_ratio", One)),
                    Summary(all_time_pnl, recent_pnl)))

\* alpha_beta_interp = interpret_alpha_beta(alpha_beta_result)
AB_Interpret ==
    /\ ab_pc \in {"zero_empty", "zero_short", "computed"}
    /\ in_pc = "idle"
    /\ interpretations' = InterpretAlphaBeta(ab_result)
    /\ in_pc' = "alpha_beta"
    /\ UNCHANGED <<ab_vars, rm_vars, td_vars, tg_vars, outer_vars>>

\* risk_interp = interpret_risk_metrics(risk_metrics)
RM_Interpret ==
    /\ rm_pc \in {"empty_input", "empty_dropna", "computed"}
    /\ in_pc = "idle"
    /\ interpretations' = InterpretRiskMetrics(rm_result)
    /\ in_pc' = "risk_metrics"
    /\ UNCHANGED <<ab_vars, rm_vars, td_vars, tg_vars, outer_vars>>

\* time_decay_interp = interpret_time_decay(time_decay_result)
TD_Interpret ==
    /\ td_pc \in {"empty", "computed"}
    /\ in_pc = "idle"
    /\ interpretations' = InterpretTimeDecay(td_result)
    /\ in_pc' = "time_decay"
    /\ UNCHANGED <<ab_vars, rm_vars, td_vars, tg_vars, outer_vars>>

\* One calculator is called on its inputs and its result is interpreted.
InitIN == InitAB \/ InitRM \/ InitTD

NextIN ==
    \/ NextAB \/ AB_Interpret
    \/ NextRM \/ RM_Interpret
    \/ NextTD \/ TD_Interpret

SpecIN == InitIN /\ [][NextIN]_vars

\* A wallet that loses a quarter on its first day: with a benchmark that
\* falls on another day, part of the loss is the market's and part the
\* wallet's own.
QuarterLoss == <<-1, 4>>
LossWalletSeries ==
    {s \in [Timestamps -> SeriesCells \cup {QuarterLoss}] :
        \A t \in Timestamps : t > 1 => s[t] \in SeriesCells}

\* alpha_beta_result = calculate_alpha_beta(wallet_returns, eth_returns)
\* followed by interpret_alpha_beta(alpha_beta_result)
InitABIN ==
    /\ wallet_returns \in LossWalletSeries
    /\ eth_returns \in EthSeries
    /\ ab_pc = "call"
    /\ ab_result = NoResult
    /\ IdleRM /\ IdleTD /\ IdleTG /\ IdleIN
    /\ IdleOuter

NextABIN == NextAB \/ AB_Interpret

SpecABIN == InitABIN /\ [][NextABIN]_vars

\* ------------------------------------------------------------ run_analysis
\* The ledger fetch_wallet_data returns: each row has a timestamp (in days),
\* a token, an action, an amount and a realized PnL (0 for a buy).
RunDays == {70, 100}
Tokens == {"AAA", "BBB"}
RunRecords ==
    [timestamp : RunDays, token_symbol : Tokens, action : {"buy"},
     amount : {1, 2}, realized_pnl : {Zero}]
    \cup [timestamp : RunDays, token_symbol : Tokens, action : {"sell"},
          amount : {1, 2}, realized_pnl : {<<-100, 1>>, <<50, 1>>}]
RunLedgers == UNION {[1..n -> RunRecords] : n \in 0..2}

\* wallet_returns is filled over its whole date index (fillna(0)) and
\* eth_returns is reindexed on it (fillna(0)): no entry is missing.
FlatSeries == [t \in Timestamps |-> Zero]
RisingSeries == [t \in Timestamps |-> IF t = 1 THEN Zero ELSE One]
FallingSeries == [t \in Timestamps |-> IF t = 1 THEN Zero ELSE <<-1, 2>>]
SwingSeries == [t \in Timestamps |-> IF t % 2 = 1 THEN One ELSE <<-1, 2>>]
RunWalletSeries == {FlatSeries, RisingSeries, FallingSeries, SwingSeries}
RunEthSeries == {FlatSeries, SwingSeries}

\* trade_count = len(trades_df), or np.random.randint(30, 200) for a wallet
\* without trades
TradeCounts(df) == IF df # <<>> THEN {Len(df)} ELSE {30, 199}

\* the dictionary fetch_wallet_data returns
WalletData ==
    UNION {{[wallet_returns |-> w, eth_returns |-> e, trades_df |-> df,
             trade_count |-> c] :
                w \in RunWalletSeries, e \in RunEthSeries,
                c \in TradeCounts(df)} : df \in RunLedgers}

\* token_trades = df[df["token_address"] == token].sort_values("timestamp")
RowsAt(df, token, day) ==
    SelectSeq(df, LAMBDA r : r.token_symbol = token /\ r.timestamp = day)
RECURSIVE ConcatDays(_, _, _)
ConcatDays(df, token, days) ==
    IF days = <<>> THEN <<>>
    ELSE RowsAt(df, token, days[1]) \o ConcatDays(df, token, Tail(days))
TokenTrades(df, token) ==
    ConcatDays(df, token, SortedSeq({df[i].timestamp : i \in DOMAIN df}))

\* calculate_hold_times: while sell_amount > 0 and buy_times
RECURSIVE ConsumeBuyTimes(_, _, _)
ConsumeBuyTimes(sell_time, sell_amount, buy_times) ==
    IF sell_amount > 0 /\ buy_times # <<>>
    THEN LET buy_time == buy_times[1][1]
             buy_amount == buy_times[1][2]
             hold_hours == FromInt((sell_time - buy_time) * 24)
             rest == IF buy_amount <= sell_amount
                     THEN ConsumeBuyTimes(sell_time, sell_amount - buy_amount,
                                          Tail(buy_times))
                     ELSE ConsumeBuyTimes(sell_time, 0,
                              <<<<buy_time, buy_amount - sell_amount>>>>
                                  \o Tail(buy_times))
         IN  [hold_times |-> <<hold_hours>> \o rest.hold_times,
              buy_times |-> rest.buy_times]
    ELSE [hold_times |-> <<>>, buy_times |-> buy_times]

\* calculate_hold_times: for _, trade in token_trades.iterrows()
RECURSIVE TokenHoldTimes(_, _)
TokenHoldTimes(rows, buy_times) ==
    IF rows = <<>> THEN <<>>
    ELSE LET trade == rows[1]
         IN  IF trade.action = "buy"
             THEN TokenHoldTimes(Tail(rows),
                      Append(buy_times, <<trade.timestamp, trade.amount>>))
             ELSE IF trade.action = "sell" /\ buy_times # <<>>
             THEN LET used == ConsumeBuyTimes(trade.timestamp, trade.amount,
                                              buy_times)
                  IN  used.hold_times
                          \o TokenHoldTimes(Tail(rows), used.buy_times)
             ELSE TokenHoldTimes(Tail(rows), buy_times)

\* calculate_hold_times: the hold_hours column, token by token
RECURSIVE HoldTimesOf(_, _)
HoldTimesOf(df, tokens) ==
    IF tokens = {} THEN <<>>
    ELSE LET token == CHOOSE k \in tokens : TRUE
         IN  TokenHoldTimes(TokenTrades(df, token), <<>>)
                 \o HoldTimesOf(df, tokens \ {token})
CalculateHoldTimes(df) ==
    HoldTimesOf(df, {df[i].token_symbol : i \in DOMAIN df})

\* calculate_trade_stats: the two keys run_analysis reads
CalculateTradeStats(df) ==
    [total_trades |-> Len(df),
     trading_days |->
        Cardinality({df[i].timestamp : i \in DOMAIN df})]

\* calculate_token_concentration
SumOver(df, S) == SumSeq([i \in 1..Len(SortedSeq(S)) |->
                            df[SortedSeq(S)[i]].realized_pnl])
CalculateTokenConcentration(df) ==
    IF df = <<>>
    THEN [top_trade_contribution |-> Zero, top_token_contribution |-> Zero,
          hhi_index |-> Zero, profitable_tokens_count |-> 0]
    ELSE LET rows == DOMAIN df
             pnl == [i \in rows |-> df[i].realized_pnl]
             total_positive_pnl ==
                 SumOver(df, {i \in rows : RGt(pnl[i], Zero)})
             max_single_trade_pnl ==
                 pnl[CHOOSE i \in rows : \A j \in rows : RLe(pnl[j], pnl[i])]
             symbols == {df[i].token_symbol : i \in rows}
             token_pnl == [k \in symbols |->
                 SumOver(df, {i \in rows : df[i].token_symbol = k})]
             positive == {k \in symbols : RGt(token_pnl[k], Zero)}
             positive_sum ==
                 SumOver(df, {i \in rows : df[i].token_symbol \in positive})
             max_token_pnl ==
                 token_pnl[CHOOSE k \in positive :
                               \A l \in positive : RLe(token_pnl[l], token_pnl[k])]
             SquareShares[S \in SUBSET positive] ==
                 IF S = {} THEN Zero
                 ELSE LET k == CHOOSE x \in S : TRUE
                          share == RDiv(token_pnl[k], positive_sum)
                      IN  RAdd(RMul(share, share), SquareShares[S \ {k}])
         IN  [top_trade_contribution |->
                  IF RGt(total_positive_pnl, Zero)
                  THEN RDiv(max_single_trade_pnl, total_positive_pnl)
                  ELSE Zero,
              top_token_contribution |->
                  IF positive # {} THEN RDiv(max_token_pnl, positive_sum)
                  ELSE Zero,
              hhi_index |-> IF positive # {} THEN SquareShares[positive] ELSE Zero,
              profitable_tokens_count |-> Cardinality(positive)]

\* recent_activity taken from the 30-day window in place of the literal True
AnalysisForTags_ActivityFromLedger(wd, alpha_beta_result, time_decay_result, risk_metrics) ==
    LET hold_times == CalculateHoldTimes(wd.trades_df)
        trade_stats == CalculateTradeStats(wd.trades_df)
        concentration_stats == CalculateTokenConcentration(wd.trades_df)
    IN  [avg_hold_time |-> IF hold_times # <<>> THEN Mean(hold_times) ELSE Zero,
         top_trade_contribution |-> concentration_stats.top_trade_contribution,
         top_token_contribution |-> concentration_stats.top_token_contribution,
         trade_frequency |->
             IF trade_stats.trading_days > 0
             THEN Rat(trade_stats.total_trades, trade_stats.trading_days)
             ELSE Zero,
         win_rate |-> Get(risk_metrics, "win_rate", <<1, 2>>),
         profit_factor |-> Get(risk_metrics, "profit_factor", Zero),
         sharpe_ratio |-> Get(risk_metrics, "sharpe_ratio", Exact(One)),
         max_drawdown |-> Get(risk_metrics, "max_drawdown", <<-1, 5>>),
         alpha_pct |-> Get(alpha_beta_result, "alpha_pct", FromInt(50)),
         decay_alert |-> Get(Get(time_decay_result, "decay_metrics", <<>>),
                             "severe_decay_alert", FALSE),
         recent_activity |-> time_decay_result["30d"].trade_count > 0,
         total_trades |-> wd.trade_count]

\* analysis_for_tags (app.py lines 376-403)
AnalysisForTags(wd, alpha_beta_result, time_decay_result, risk_metrics) ==
    LET hold_times == CalculateHoldTimes(wd.trades_df)
        trade_stats == CalculateTradeStats(wd.trades_df)
        concentration_stats == CalculateTokenConcentration(wd.trades_df)
    IN  [avg_hold_time |-> IF hold_times # <<>> THEN Mean(hold_times) ELSE Zero,
         top_trade_contribution |-> concentration_stats.top_trade_contribution,
         top_token_contribution |-> concentration_stats.top_token_contribution,
         trade_frequency |->
             IF trade_stats.trading_days > 0
             THEN Rat(trade_stats.total_trades, trade_stats.trading_days)
             ELSE Zero,
         win_rate |-> Get(risk_metrics, "win_rate", <<1, 2>>),
         profit_factor |-> Get(risk_metrics, "profit_factor", Zero),
         sharpe_ratio |-> Get(risk_metrics, "sharpe_ratio", Exact(One)),
         max_drawdown |-> Get(risk_metrics, "max_drawdown", <<-1, 5>>),
         alpha_pct |-> Get(alpha_beta_result, "alpha_pct", FromInt(50)),
         decay_alert |-> Get(Get(time_decay_result, "decay_metrics", <<>>),
                             "severe_decay_alert", FALSE),
         recent_activity |-> TRUE,
         total_trades |-> wd.trade_count]

\* Step 3: alpha_beta_result = calculate_alpha_beta(wallet_returns, eth_returns)
RA_CallAlphaBeta ==
    /\ ra_pc = "step3"
    /\ wallet_returns' = wallet_data.wallet_returns
    /\ eth_returns' = wallet_data.eth_returns
    /\ ab_pc' = "call"
    /\ ra_pc' = "alpha_beta"
    /\ UNCHANGED <<ab_result, rm_vars, td_vars, tg_vars, in_vars,
                   wallet_data, ra_interp, rest_vars>>

\* alpha_beta_interp = interpret_alpha_beta(alpha_beta_result)
RA_InterpretAlphaBeta ==
    /\ ra_pc = "alpha_beta"
    /\ ab_pc \in {"zero_empty", "zero_short", "computed"}
    /\ ra_interp' = [ra_interp EXCEPT !.alpha_beta = InterpretAlphaBeta(ab_result)]
    /\ ra_pc' = "step4"
    /\ UNCHANGED <<ab_vars, rm_vars, td_vars, tg_vars, in_vars, wallet_data,
                   rest_vars>>

\* Step 4: time_decay_result = time_decay_analysis(trades_df)
RA_CallTimeDecay ==
    /\ ra_pc = "step4"
    /\ trades_df' = wallet_data.trades_df
    /\ clock' \in ClockDays
    /\ td_pc' = "call"
    /\ ra_pc' = "time_decay"
    /\ UNCHANGED <<td_result, td_first, ab_vars, rm_vars, tg_vars, in_vars,
                   wallet_data, ra_interp, rest_vars>>

\* time_decay_interp = interpret_time_decay(time_decay_result)
RA_InterpretTimeDecay ==
    /\ ra_pc = "time_decay"
    /\ td_pc \in {"empty", "computed"}
    /\ ra_interp' = [ra_interp EXCEPT !.time_decay = InterpretTimeDecay(td_result)]
    /\ ra_pc' = "step5"
    /\ UNCHANGED <<ab_vars, rm_vars, td_vars, tg_vars, in_vars, wallet_data,
                   rest_vars>>

\* the risk metrics computed as soon as the attribution is done, without
\* waiting for the time-decay step
RA_CallRiskMetrics_BeforeDecay ==
    /\ ra_pc \in {"step4", "step5"}
    /\ returns_series' = wallet_data.wallet_returns
    /\ rm_pc' = "call"
    /\ ra_pc' = "risk_metrics"
    /\ UNCHANGED <<rm_result, ab_vars, td_vars, tg_vars, in_vars,
                   wallet_data, ra_interp, rest_vars>>

\* Step 5: risk_metrics = calculate_risk_metrics(wallet_returns)
RA_CallRiskMetrics ==
    /\ ra_pc = "step5"
    /\ returns_series' = wallet_data.wallet_returns
    /\ rm_pc' = "call"
    /\ ra_pc' = "risk_metrics"
    /\ UNCHANGED <<rm_result, ab_vars, td_vars, tg_vars, in_vars,
                   wallet_data, ra_interp, rest_vars>>

\* risk_interp = interpret_risk_metrics(risk_metrics)
RA_InterpretRiskMetrics ==
    /\ ra_pc = "risk_metrics"
    /\ rm_pc \in {"empty_input", "empty_dropna", "computed"}
    /\ ra_interp' = [ra_interp EXCEPT !.risk = InterpretRiskMetrics(rm_result)]
    /\ ra_pc' = "step6"
    /\ UNCHANGED <<ab_vars, rm_vars, td_vars, tg_vars, in_vars, wallet_data,
                   rest_vars>>

\* Step 6: the processor statistics, analysis_for_tags, and the call
\* behavior_tags = generate_behavior_tags(analysis_for_tags)
RA_CallTags ==
    /\ ra_pc = "step6"
    /\ analysis_results' = AnalysisForTags(wallet_data, ab_result, td_result,
                                            rm_result)
    /\ tg_pc' = "call"
    /\ ra_pc' = "tags"
    /\ UNCHANGED <<TAGS, tags, tags_first, ab_vars, rm_vars, td_vars, in_vars,
                   wallet_data, ra_interp, rest_vars>>

\* behavior_tags is bound and goes on to the summary and the rendering
RA_TagsReturned ==
    /\ ra_pc = "tags"
    /\ tg_pc = "returned"
    /\ ra_pc' = "step7"
    /\ UNCHANGED <<ab_vars, rm_vars, td_vars, tg_vars, in_vars,
                   wallet_data, ra_interp, rest_vars>>

\* run_analysis after fetch_wallet_data has returned
InitRA ==
    /\ wallet_data \in WalletData
    /\ ra_pc = "step3"
    /\ ra_interp = NoInterp
    /\ IdleAB /\ IdleRM /\ IdleTD /\ IdleTG /\ IdleIN
    /\ IdleRest

\* The series of a run hold 180 days, none missing: the calculators' early
\* returns for empty or short input are not taken.
NextRA ==
    \/ RA_CallAlphaBeta \/ AB_ReturnComputed \/ RA_InterpretAlphaBeta
    \/ RA_CallTimeDecay \/ TD_ReturnEmpty \/ TD_ReturnComputed
    \/ RA_InterpretTimeDecay
    \/ RA_CallRiskMetrics \/ RM_ReturnComputed \/ RA_InterpretRiskMetrics
    \/ RA_CallTags \/ TG_Return \/ RA_TagsReturned

SpecRA == InitRA /\ [][NextRA]_vars

\* generate_behavior_tags has two callers: run_analysis, with the dictionary
\* it builds, and a direct call with a dictionary of the caller's own (the
\* debug script's).
InitRATG == InitRA \/ InitTG

SpecRATG == InitRATG /\ [][NextRA]_vars

\* ------------------------------------------------------------ realized PnL
\* DataProcessor.calculate_realized_pnl (src/data/processor.py).  Amounts and
\* prices are whole numbers; the price of a row is given by its place in the
\* frame, so that every lot of a frame has a price of its own.
PriceAt == <<1, 3, 2>>
PnlRows(i) ==
    [token_address : Tokens, timestamp : {1, 2}, action : {"buy", "sell"},
     amount : {1, 2, 3}, price_usd : {PriceAt[i]}]
PnlFrames ==
    {<<>>}
    \cup {<<a>> : a \in PnlRows(1)}
    \cup {<<a, b>> : a \in PnlRows(1), b \in PnlRows(2)}
    \cup {<<a, b, c>> : a \in PnlRows(1), b \in PnlRows(2), c \in PnlRows(3)}

\* df["token_address"].unique(): the tokens in the order they first appear
RECURSIVE Unique(_, _)
Unique(df, seen) ==
    IF df = <<>> THEN <<>>
    ELSE IF df[1].token_address \in seen THEN Unique(Tail(df), seen)
    ELSE <<df[1].token_address>>
             \o Unique(Tail(df), seen \cup {df[1].token_address})

\* df[df["token_address"] == token].sort_values("timestamp"): the rows of the
\* token by ascending timestamp.  The default sort is not a stable one, so
\* rows of equal timestamp come out in any order.
SortValues(df, token) ==
    LET idx == {i \in DOMAIN df : df[i].token_address = token}
        n == Cardinality(idx)
    IN  {[k \in 1..n |-> df[o[k]]] :
            o \in {f \in [1..n -> idx] :
                      /\ \A j, k \in 1..n : j # k => f[j] # f[k]
                      /\ \A j, k \in 1..n :
                            j < k => df[f[j]].timestamp <= df[f[k]].timestamp}}

\* the newest lot is taken first: buy_queue[-1], buy_queue.pop()
RECURSIVE ConsumeBuyQueue_NewestFirst(_, _, _, _)
ConsumeBuyQueue_NewestFirst(sell_amount, sell_price, trade_pnl, queue) ==
    IF sell_amount > 0 /\ queue # <<>>
    THEN LET buy_amount == queue[Len(queue)][1]
             buy_price == queue[Len(queue)][2]
             front == SubSeq(queue, 1, Len(queue) - 1)
         IN  IF buy_amount <= sell_amount
             THEN ConsumeBuyQueue_NewestFirst(
                      sell_amount - buy_amount, sell_price,
                      trade_pnl + buy_amount * (sell_price - buy_price), front)
             ELSE ConsumeBuyQueue_NewestFirst(
                      0, sell_price,
                      trade_pnl + sell_amount * (sell_price - buy_price),
                      Append(front, <<buy_amount - sell_amount, buy_price>>))
    ELSE [trade_pnl |-> trade_pnl, buy_queue |-> queue]

\* while sell_amount > 0 and buy_queue: ... (lines 133-145)
RECURSIVE ConsumeBuyQueue(_, _, _, _)
ConsumeBuyQueue(sell_amount, sell_price, trade_pnl, queue) ==
    IF sell_amount > 0 /\ queue # <<>>
    THEN LET buy_amount == queue[1][1]
             buy_price == queue[1][2]
         IN  IF buy_amount <= sell_amount
             THEN ConsumeBuyQueue(
                      sell_amount - buy_amount, sell_price,
                      trade_pnl + buy_amount * (sell_price - buy_price),
                      Tail(queue))
             ELSE ConsumeBuyQueue(
                      0, sell_price,
                      trade_pnl + sell_amount * (sell_price - buy_price),
                      <<<<buy_amount - sell_amount, buy_price>>>>
                          \o Tail(queue))
    ELSE [trade_pnl |-> trade_pnl, buy_queue |-> queue]

\* if trades_df.empty: return trades_df
PNL_ReturnEmpty ==
    /\ pnl_pc = "call"
    /\ pnl_df = <<>>
    /\ pnl_pc' = "returned"
    /\ UNCHANGED <<pnl_df, unique_tokens, token_trades, buy_queue, pnl_records>>
    /\ UNCHANGED <<ab_vars, rm_vars, td_vars, tg_vars, in_vars, ra_vars,
                   wr_vars>>

\* df = trades_df.copy(); pnl_records = []; the outer loop's iterator
PNL_Begin ==
    /\ pnl_pc = "call"
    /\ pnl_df # <<>>
    /\ pnl_records' = <<>>
    /\ unique_tokens' = Unique(pnl_df, {})
    /\ pnl_pc' = "for_token"
    /\ UNCHANGED <<pnl_df, token_trades, buy_queue>>
    /\ UNCHANGED <<ab_vars, rm_vars, td_vars, tg_vars, in_vars, ra_vars,
                   wr_vars>>

\* for token in ...: token_trades = ...sort_values("timestamp"); buy_queue = []
PNL_NextToken ==
    /\ pnl_pc = "for_token"
    /\ unique_tokens # <<>>
    /\ token_trades' \in SortValues(pnl_df, Head(unique_tokens))
    /\ unique_tokens' = Tail(unique_tokens)
    /\ buy_queue' = <<>>
    /\ pnl_pc' = "for_trade"
    /\ UNCHANGED <<pnl_df, pnl_records>>
    /\ UNCHANGED <<ab_vars, rm_vars, td_vars, tg_vars, in_vars, ra_vars,
                   wr_vars>>

\* if trade["action"] == "buy": buy_queue.append((amount, price_usd))
PNL_Buy ==
    /\ pnl_pc = "for_trade"
    /\ token_trades # <<>>
    /\ Head(token_trades).action = "buy"
    /\ buy_queue' = Append(buy_queue, <<Head(token_trades).amount,
                                        Head(token_trades).price_usd>>)
    /\ token_trades' = Tail(token_trades)
    /\ UNCHANGED <<pnl_df, pnl_pc, unique_tokens, pnl_records>>
    /\ UNCHANGED <<ab_vars, rm_vars, td_vars, tg_vars, in_vars, ra_vars,
                   wr_vars>>

\* elif trade["action"] == "sell": the while loop, then pnl_records.append
PNL_Sell ==
    /\ pnl_pc = "for_trade"
    /\ token_trades # <<>>
    /\ Head(token_trades).action = "sell"
    /\ LET trade == Head(token_trades)
           matched == ConsumeBuyQueue(trade.amount, trade.price_usd, 0,
                                      buy_queue)
       IN  /\ buy_queue' = matched.buy_queue
           /\ pnl_records' =
                  Append(pnl_records,
                         [timestamp |-> trade.timestamp,
                          token_address |-> trade.token_address,
                          realized_pnl |-> matched.trade_pnl])
    /\ token_trades' = Tail(token_trades)
    /\ UNCHANGED <<pnl_df, pnl_pc, unique_tokens>>
    /\ UNCHANGED <<ab_vars, rm_vars, td_vars, tg_vars, in_vars, ra_vars,
                   wr_vars>>

\* the rows of the token are exhausted: back to the outer loop
PNL_TokenDone ==
    /\ pnl_pc = "for_trade"
    /\ token_trades = <<>>
    /\ pnl_pc' = "for_token"
    /\ UNCHANGED <<pnl_df, unique_tokens, token_trades, buy_queue, pnl_records>>
    /\ UNCHANGED <<ab_vars, rm_vars, td_vars, tg_vars, in_vars, ra_vars,
                   wr_vars>>

\* return pd.DataFrame(pnl_records)
PNL_Return ==
    /\ pnl_pc = "for_token"
    /\ unique_tokens = <<>>
    /\ pnl_pc' = "returned"
    /\ UNCHANGED <<pnl_df, unique_tokens, token_trades, buy_queue, pnl_records>>
    /\ UNCHANGED <<ab_vars, rm_vars, td_vars, tg_vars, in_vars, ra_vars,
                   wr_vars>>

InitPNL ==
    /\ pnl_df \in PnlFrames
    /\ pnl_pc = "call"
    /\ unique_tokens = <<>>
    /\ token_trades = <<>>
    /\ buy_queue = <<>>
    /\ pnl_records = <<>>
    /\ IdleAB /\ IdleRM /\ IdleTD /\ IdleTG /\ IdleIN
    /\ IdleRA
    /\ IdleWR

NextPNL ==
    \/ PNL_ReturnEmpty \/ PNL_Begin \/ PNL_NextToken
    \/ PNL_Buy \/ PNL_Sell \/ PNL_TokenDone \/ PNL_Return

SpecPNL == InitPNL /\ [][NextPNL]_vars

\* ------------------------------------------------------------ Dune polling
\* DuneFetcher._wait_for_result (src/data/fetcher.py).  Time is counted in
\* whole seconds from start_time; a poll takes 0 or 1 second to answer.
MaxWaits == {0, 5, 8}
PollSeconds == {0, 1}
QueryStates ==
    {"QUERY_STATE_COMPLETED", "QUERY_STATE_FAILED", "QUERY_STATE_PENDING",
     "QUERY_STATE_EXECUTING", "QUERY_STATE_CANCELLED"}
\* response.json(): a dictionary with or without the keys state and result
Responses ==
    {[state |-> s] : s \in QueryStates}
    \cup {[state |-> s, result |-> "rows"] : s \in QueryStates}
    \cup {[error |-> "message"], [result |-> "rows"]}

\* state = data.get("state")
StateOf(d) == Get(d, "state", "None")

\* while time.time() - start_time < max_wait: the body is entered
WR_EnterLoop ==
    /\ wr_pc = "while"
    /\ elapsed < max_wait
    /\ wr_pc' = "get"
    /\ UNCHANGED <<max_wait, elapsed, data, wr_result>>
    /\ UNCHANGED <<ab_vars, rm_vars, td_vars, tg_vars, in_vars, ra_vars,
                   pnl_vars>>

\* the loop condition fails: raise TimeoutError("Query execution timed out")
WR_Timeout ==
    /\ wr_pc = "while"
    /\ ~(elapsed < max_wait)
    /\ wr_pc' = "raised_timeout"
    /\ UNCHANGED <<max_wait, elapsed, data, wr_result>>
    /\ UNCHANGED <<ab_vars, rm_vars, td_vars, tg_vars, in_vars, ra_vars,
                   pnl_vars>>

\* response = requests.get(url, headers=self.headers); data = response.json()
WR_Get ==
    /\ wr_pc = "get"
    /\ data' \in Responses
    /\ \E s \in PollSeconds : elapsed' = elapsed + s
    /\ wr_pc' = "state"
    /\ UNCHANGED <<max_wait, wr_result>>
    /\ UNCHANGED <<ab_vars, rm_vars, td_vars, tg_vars, in_vars, ra_vars,
                   pnl_vars>>

\* requests.get or response.json() raises (no connection, a body that is not
\* JSON): the exception leaves _wait_for_result
WR_GetRaises ==
    /\ wr_pc = "get"
    /\ \E s \in PollSeconds : elapsed' = elapsed + s
    /\ wr_pc' = "raised_request"
    /\ UNCHANGED <<max_wait, data, wr_result>>
    /\ UNCHANGED <<ab_vars, rm_vars, td_vars, tg_vars, in_vars, ra_vars,
                   pnl_vars>>

\* whatever carries a result is returned, the state unread
WR_Completed_AnyResult ==
    /\ wr_pc = "state"
    /\ "result" \in DOMAIN data
    /\ wr_result' = [value |-> data.result]
    /\ wr_pc' = "returned"
    /\ UNCHANGED <<max_wait, elapsed, data>>
    /\ UNCHANGED <<ab_vars, rm_vars, td_vars, tg_vars, in_vars, ra_vars,
                   pnl_vars>>

\* if state == "QUERY_STATE_COMPLETED": return data.get("result", {})
WR_Completed ==
    /\ wr_pc = "state"
    /\ StateOf(data) = "QUERY_STATE_COMPLETED"
    /\ wr_result' = [value |-> Get(data, "result", "{}")]
    /\ wr_pc' = "returned"
    /\ UNCHANGED <<max_wait, elapsed, data>>
    /\ UNCHANGED <<ab_vars, rm_vars, td_vars, tg_vars, in_vars, ra_vars,
                   pnl_vars>>

\* elif state == "QUERY_STATE_FAILED": raise Exception("Query failed: ...")
WR_Failed ==
    /\ wr_pc = "state"
    /\ StateOf(data) = "QUERY_STATE_FAILED"
    /\ wr_pc' = "raised_failed"
    /\ UNCHANGED <<max_wait, elapsed, data, wr_result>>
    /\ UNCHANGED <<ab_vars, rm_vars, td_vars, tg_vars, in_vars, ra_vars,
                   pnl_vars>>

\* elif state in ["QUERY_STATE_PENDING", "QUERY_STATE_EXECUTING"]:
\*     time.sleep(3)
WR_SleepPending ==
    /\ wr_pc = "state"
    /\ StateOf(data) \in {"QUERY_STATE_PENDING", "QUERY_STATE_EXECUTING"}
    /\ elapsed' = elapsed + 3
    /\ wr_pc' = "while"
    /\ UNCHANGED <<max_wait, data, wr_result>>
    /\ UNCHANGED <<ab_vars, rm_vars, td_vars, tg_vars, in_vars, ra_vars,
                   pnl_vars>>

\* else: time.sleep(2)
WR_SleepOther ==
    /\ wr_pc = "state"
    /\ StateOf(data) \notin {"QUERY_STATE_COMPLETED", "QUERY_STATE_FAILED",
                             "QUERY_STATE_PENDING", "QUERY_STATE_EXECUTING"}
    /\ elapsed' = elapsed + 2
    /\ wr_pc' = "while"
    /\ UNCHANGED <<max_wait, data, wr_result>>
    /\ UNCHANGED <<ab_vars, rm_vars, td_vars, tg_vars, in_vars, ra_vars,
                   pnl_vars>>

\* url = ...; start_time = time.time()
InitWR ==
    /\ max_wait \in MaxWaits
    /\ elapsed = 0
    /\ data = NoResult
    /\ wr_pc = "while"
    /\ wr_result = NoResult
    /\ IdleAB /\ IdleRM /\ IdleTD /\ IdleTG /\ IdleIN
    /\ IdleRA
    /\ IdlePNL

NextWR ==
    \/ WR_EnterLoop \/ WR_Timeout \/ WR_Get \/ WR_GetRaises
    \/ WR_Completed \/ WR_Failed \/ WR_SleepPending \/ WR_SleepOther

SpecWR == InitWR /\ [][NextWR]_vars

\* _wait_for_result is straight-line code in one thread: whenever it has a
\* next statement it executes it, every poll and every sleep returning.
SpecWRFair == SpecWR /\ WF_vars(NextWR)

\* ============================================================ properties
\* ------------------------------------------------------------ alpha/beta
ABReturned == ab_pc \in {"zero_empty", "zero_short", "computed"}

\* The timestamps both series share with a defined value, said without the
\* model's own alignment.
SharedDefined ==
    {t \in Timestamps :
        /\ wallet_returns[t] # Absent /\ wallet_returns[t] # NaN
        /\ eth_returns[t] # Absent /\ eth_returns[t] # NaN}

\* C1: in every result of calculate_alpha_beta, on the computed path and on
\* both zero-filled paths, alpha_contribution + beta_contribution equals
\* total_return.
C1_ContributionsSumToTotal ==
    ABReturned =>
        RAdd(ab_result.alpha_contribution, ab_result.beta_contribution)
            = ab_result.total_return

\* C1 witness: a computed result in which both contributions are non-zero.
C1_Witness ==
    /\ ab_pc = "computed"
    /\ ab_result.alpha_contribution # Zero
    /\ ab_result.beta_contribution # Zero
    /\ ab_result.total_return # Zero

\* The wallet series is the benchmark series, with at least 2 points.
IdenticalSeries ==
    /\ wallet_returns = eth_returns
    /\ Cardinality(SharedDefined) >= 2
SharedValues == {wallet_returns[t] : t \in SharedDefined}

\* C2 as claimed: for every wallet series identical to the benchmark, the
\* all-equal ones included, beta is 1 and alpha is 0.
C2_IdenticalGivesUnitBeta ==
    (ABReturned /\ IdenticalSeries) =>
        (ab_result.beta = One /\ ab_result.alpha = Zero)

\* C2 as amended: for a wallet series identical to the benchmark, beta is 1
\* and alpha 0 when the returns are not all equal; when they are all equal
\* (zero benchmark variance) beta is 0 and alpha is the annualized excess
\* return, 252 * (r - rf / 252).
C2_IdenticalNonConstantGivesUnitBeta ==
    (ABReturned /\ IdenticalSeries) =>
        IF Cardinality(SharedValues) > 1
        THEN ab_result.beta = One /\ ab_result.alpha = Zero
        ELSE /\ ab_result.beta = Zero
             /\ \A r \in SharedValues :
                   ab_result.alpha =
                       RSub(RMul(r, FromInt(PeriodsPerYear)), RiskFreeRate)

\* C2 witness: an identical, non-constant series has been attributed.
C2_Witness ==
    /\ ab_pc = "computed"
    /\ IdenticalSeries
    /\ Cardinality(SharedValues) > 1

\* C3: the series are aligned on the timestamps both define; an empty input
\* or fewer than 2 aligned points gives the seven-field all-zero result, and
\* 2 or more aligned points never take a zero-filled path: the result is
\* then computed over exactly the shared timestamps.
C3_AlignOrZeroFill ==
    ABReturned =>
        /\ DOMAIN ab_result = {"alpha", "beta", "alpha_pct", "beta_pct",
                               "alpha_contribution", "beta_contribution",
                               "total_return"}
        /\ IF Cardinality(SharedDefined) < 2
           THEN /\ ab_pc \in {"zero_empty", "zero_short"}
                /\ \A k \in DOMAIN ab_result : ab_result[k] = Zero
           ELSE /\ ab_pc = "computed"
                /\ ab_result.total_return =
                       TotalReturn(Values(wallet_returns, SharedDefined))
        /\ (IsEmpty(wallet_returns) \/ IsEmpty(eth_returns))
               => ab_pc = "zero_empty"

\* C3 witness: two non-empty series zero-filled because an undefined wallet
\* entry left fewer than 2 aligned points.
C3_Witness ==
    /\ ab_pc = "zero_short"
    /\ \E t \in Timestamps :
          wallet_returns[t] = NaN /\ eth_returns[t] \in RetVals
    /\ Cardinality(Defined(wallet_returns)) >= 2
    /\ Cardinality(Defined(eth_returns)) >= 2

\* C4: alpha_pct and beta_pct are both 0 when |total_return| <= 1e-4 and
\* otherwise 100 * contribution / total_return, summing to 100.
C4_PercentagesOrZero ==
    ABReturned =>
        IF RLe(RAbs(ab_result.total_return), PctEpsilon)
        THEN ab_result.alpha_pct = Zero /\ ab_result.beta_pct = Zero
        ELSE /\ ab_result.alpha_pct =
                    RDiv(RMul(FromInt(100), ab_result.alpha_contribution),
                         ab_result.total_return)
             /\ ab_result.beta_pct =
                    RDiv(RMul(FromInt(100), ab_result.beta_contribution),
                         ab_result.total_return)
             /\ RAdd(ab_result.alpha_pct, ab_result.beta_pct) = FromInt(100)

\* C4 witness: a computed result whose total return is non-zero but inside
\* the epsilon band, so that the percentages are withheld.
C4_Witness ==
    /\ ab_pc = "computed"
    /\ ab_result.total_return # Zero
    /\ RLe(RAbs(ab_result.total_return), PctEpsilon)
    /\ ab_result.beta_contribution # Zero

\* A computed result outside the band, with both percentages non-zero.
C4_PercentagesComputed ==
    /\ ab_pc = "computed"
    /\ RGt(RAbs(ab_result.total_return), PctEpsilon)
    /\ ab_result.alpha_pct # Zero
    /\ ab_result.beta_pct # Zero

\* ------------------------------------------------------------ risk metrics
RMReturned == rm_pc \in {"empty_input", "empty_dropna", "computed"}

\* The timestamps at which the return series holds a defined value, and the
\* defined values in timestamp order, said without the model's own dropna.
NonMissing ==
    {t \in Timestamps : returns_series[t] # Absent /\ returns_series[t] # NaN}
NonMissingValues == Values(returns_series, NonMissing)
Wins == {t \in NonMissing : Num(returns_series[t]) > 0}
Losses == {t \in NonMissing : Num(returns_series[t]) < 0}
RiskKeys ==
    {"sharpe_ratio", "sortino_ratio", "max_drawdown", "calmar_ratio",
     "annual_return", "annual_volatility", "win_rate", "profit_factor",
     "expected_value", "max_win_streak", "max_loss_streak"}

\* C5: with fewer than 2 non-missing points (an empty series included) the
\* result is the all-zero structure of eleven fields; with 2 or more the
\* eleven fields are computed from the non-missing points only.
C5_EmptyMetricsOrComputed ==
    RMReturned =>
        /\ DOMAIN rm_result = RiskKeys
        /\ IF Cardinality(NonMissing) < 2
           THEN /\ rm_pc \in {"empty_input", "empty_dropna"}
                /\ rm_result.sharpe_ratio = SurdZero
                /\ rm_result.sortino_ratio = SurdZero
                /\ rm_result.max_drawdown = Zero
                /\ rm_result.calmar_ratio = QuotZero
                /\ rm_result.annual_return = PowerZero
                /\ rm_result.annual_volatility = RootZero
                /\ rm_result.win_rate = Zero
                /\ rm_result.profit_factor = Zero
                /\ rm_result.expected_value = Zero
                /\ rm_result.max_win_streak = 0
                /\ rm_result.max_loss_streak = 0
           ELSE /\ rm_pc = "computed"
                /\ rm_result.expected_value = Mean(NonMissingValues)
                /\ rm_result.win_rate =
                       Rat(Cardinality(Wins), Cardinality(NonMissing))
                /\ rm_result.annual_return =
                       Power(RAdd(One, TotalReturn(NonMissingValues)),
                             Cardinality(NonMissing))
                /\ rm_result.annual_volatility =
                       [sq |-> RMul(Var(NonMissingValues),
                                    FromInt(PeriodsPerYear))]

\* C5 witness: a series of 2 or more entries, emptied below 2 points by
\* dropping its undefined entries, has been answered.
C5_Witness ==
    /\ rm_pc = "empty_dropna"
    /\ Cardinality(NonMissing) = 1
    /\ \E t \in Timestamps : returns_series[t] = NaN

\* A computed result over a series that also holds an undefined entry.
C5_ComputedAroundNaN ==
    /\ rm_pc = "computed"
    /\ \E t \in Timestamps : returns_series[t] = NaN
    /\ rm_result.expected_value # Zero

WealthAt(i) ==
    ProdSeq([j \in 1..i |-> RAdd(One, NonMissingValues[j])])
PeakAt(i) ==
    CHOOSE p \in {WealthAt(j) : j \in 1..i} :
        \A j \in 1..i : RLe(WealthAt(j), p)
WealthNeverDecreases ==
    \A i \in 1..(Cardinality(NonMissing) - 1) : RLe(WealthAt(i), WealthAt(i + 1))

\* C7 as claimed: max_drawdown is a defined value <= 0, the minimum over all
\* points of wealth / peak - 1, and it is 0 when wealth never decreases.
C7_MaxDrawdownDefinedNonPositive ==
    rm_pc = "computed" =>
        /\ rm_result.max_drawdown # NaN
        /\ RLe(rm_result.max_drawdown, Zero)
        /\ \A i \in 1..Cardinality(NonMissing) :
              /\ PeakAt(i) # Zero
              /\ RLe(rm_result.max_drawdown,
                     RSub(RDiv(WealthAt(i), PeakAt(i)), One))
        /\ WealthNeverDecreases => rm_result.max_drawdown = Zero

\* The part of C7 the code does satisfy: whenever the first period is not a
\* total loss, max_drawdown is defined, <= 0, attained as wealth / peak - 1,
\* and 0 when wealth never decreases.
C7_HoldsUnlessWipedOutAtOnce ==
    (rm_pc = "computed" /\ NonMissingValues[1] # <<-1, 1>>) =>
        /\ rm_result.max_drawdown # NaN
        /\ RLe(rm_result.max_drawdown, Zero)
        /\ \A i \in 1..Cardinality(NonMissing) :
              RLe(rm_result.max_drawdown,
                  RSub(RDiv(WealthAt(i), PeakAt(i)), One))
        /\ \E i \in 1..Cardinality(NonMissing) :
              rm_result.max_drawdown = RSub(RDiv(WealthAt(i), PeakAt(i)), One)
        /\ WealthNeverDecreases => rm_result.max_drawdown = Zero

\* C8: profit_factor is finite and >= 0: mean(wins) / |mean(losses)| with
\* both kinds of period present, 0 with neither, and with wins but no losses
\* one fixed finite value (the code's is 0), never infinity or NaN.
C8_ProfitFactorFinite ==
    RMReturned =>
        /\ rm_result.profit_factor # Inf
        /\ rm_result.profit_factor # NaN
        /\ Den(rm_result.profit_factor) > 0
        /\ Num(rm_result.profit_factor) >= 0
        /\ (rm_pc = "computed" /\ Wins # {} /\ Losses # {}) =>
              rm_result.profit_factor =
                  RDiv(Mean(Values(returns_series, Wins)),
                       RAbs(Mean(Values(returns_series, Losses))))
        /\ (Wins = {} /\ Losses = {}) => rm_result.profit_factor = Zero
        /\ (Wins # {} /\ Losses = {}) => rm_result.profit_factor = Zero

\* C8 witness: a computed result for a series with wins but no losses.
C8_Witness ==
    /\ rm_pc = "computed"
    /\ Wins # {}
    /\ Losses = {}

\* A computed result with both winning and losing periods.
C8_BothKinds ==
    /\ rm_pc = "computed"
    /\ Wins # {}
    /\ Losses # {}
    /\ rm_result.profit_factor # One

\* The length of the longest run of consecutive non-missing periods whose
\* timestamps all lie in S.
LongestRun(S) ==
    LET o == SortedSeq(NonMissing)
        n == Len(o)
        IsRun(i, k) == \A j \in i..(i + k - 1) : o[j] \in S
    IN  CHOOSE k \in 0..n :
           /\ \E i \in 1..(n - k + 1) : IsRun(i, k)
           /\ \A m \in (k + 1)..n : \A i \in 1..(n - m + 1) : ~IsRun(i, m)

\* C9: max_win_streak is the length of the longest run of consecutive
\* periods with return > 0 and max_loss_streak that of return < 0; a
\* zero-return period ends either run, and no such period gives 0.
C9_StreaksAreLongestRuns ==
    rm_pc = "computed" =>
        /\ rm_result.max_win_streak = LongestRun(Wins)
        /\ rm_result.max_loss_streak = LongestRun(Losses)

\* C9 witness: two winning periods separated by a zero-return period.
C9_Witness ==
    /\ rm_pc = "computed"
    /\ Cardinality(Wins) = 2
    /\ \E t \in NonMissing : returns_series[t] = Zero
    /\ rm_result.max_win_streak = 1

\* ------------------------------------------------------------ time decay
TDReturned == td_pc \in {"empty", "computed"}

\* C10: on an empty ledger time_decay_analysis returns the four windows
\* all_time, 90d, 30d and 7d, each with pnl, win_rate, trade_count and
\* avg_pnl_per_trade 0, and decay metrics with both decays 0, no alert, not
\* recently losing, recent_30d_pnl 0 and activity_ratio 0.
C10_EmptyLedgerZeroFilled ==
    (TDReturned /\ trades_df = <<>>) =>
        /\ DOMAIN td_result = {"all_time", "90d", "30d", "7d", "decay_metrics"}
        /\ \A k \in {"all_time", "90d", "30d", "7d"} :
              /\ td_result[k].pnl = Zero
              /\ td_result[k].win_rate = Zero
              /\ td_result[k].trade_count = 0
              /\ td_result[k].avg_pnl_per_trade = Zero
        /\ td_result["decay_metrics"].win_rate_decay_30d = Zero
        /\ td_result["decay_metrics"].win_rate_decay_7d = Zero
        /\ td_result["decay_metrics"].severe_decay_alert = FALSE
        /\ td_result["decay_metrics"].recent_losing = FALSE
        /\ td_result["decay_metrics"].recent_30d_pnl = Zero
        /\ td_result["decay_metrics"].activity_ratio = Zero

\* C10 witness: the call on an empty ledger has returned.
C10_Witness ==
    /\ td_pc = "empty"
    /\ trades_df = <<>>
    /\ td_result # NoResult

\* The ledger positions a window of W days holds when the clock reads `clock`
\* (W = 0: the all-time window), said without the model's own filter.
InWindow(W) ==
    {i \in DOMAIN trades_df : W = 0 \/ trades_df[i].timestamp >= clock - W}
RECURSIVE SumPnl(_)
SumPnl(S) ==
    IF S = {} THEN Zero
    ELSE LET i == CHOOSE j \in S : TRUE
         IN  RAdd(trades_df[i].realized_pnl, SumPnl(S \ {i}))
Winners(S) == {i \in S : Num(trades_df[i].realized_pnl) > 0}
WindowOf == [k \in {"all_time", "90d", "30d", "7d"} |->
               CASE k = "all_time" -> 0
                 [] k = "90d" -> 90
                 [] k = "30d" -> 30
                 [] k = "7d" -> 7]

\* C11: for a non-empty ledger and each window W in {90, 30, 7} days the
\* statistics cover exactly the records with timestamp >= now - W (all
\* records for all_time): pnl is the sum of realized_pnl, trade_count the
\* number of records, win_rate the share of records with realized_pnl > 0,
\* avg_pnl_per_trade = pnl / trade_count, and all four are 0 for a window
\* without a record.
C11_WindowStatistics ==
    (TDReturned /\ trades_df # <<>>) =>
        \A k \in DOMAIN WindowOf :
            LET S == InWindow(WindowOf[k])
                n == Cardinality(S)
            IN  /\ td_result[k].trade_count = n
                /\ td_result[k].pnl = SumPnl(S)
                /\ IF n = 0
                   THEN /\ td_result[k].pnl = Zero
                        /\ td_result[k].win_rate = Zero
                        /\ td_result[k].avg_pnl_per_trade = Zero
                   ELSE /\ td_result[k].win_rate = Rat(Cardinality(Winners(S)), n)
                        /\ td_result[k].avg_pnl_per_trade =
                               RDiv(SumPnl(S), FromInt(n))

\* C11 witness: a record dated exactly 30 days before the clock is counted
\* in the 30-day window, an older record is left out of it, and the 7-day
\* window is empty.
C11_Witness ==
    /\ td_pc = "computed"
    /\ \E i \in DOMAIN trades_df : trades_df[i].timestamp = clock - 30
    /\ td_result["30d"].trade_count >= 1
    /\ td_result["30d"].trade_count < td_result["all_time"].trade_count
    /\ td_result["7d"].trade_count = 0
    /\ td_result["30d"].pnl # Zero

\* C12: in every result, severe_decay_alert is true if and only if
\* all_time.win_rate > 0 and 30d.win_rate < 0.7 * all_time.win_rate.
C12_SevereDecayIff ==
    TDReturned =>
        (td_result["decay_metrics"].severe_decay_alert
            <=> /\ RGt(td_result["all_time"].win_rate, Zero)
                /\ RLt(RMul(FromInt(10), td_result["30d"].win_rate),
                       RMul(FromInt(7), td_result["all_time"].win_rate)))

\* C12 witness: the 30-day win rate has dropped below the all-time one, yet
\* not below 70% of it, and no alert is raised.
C12_Witness ==
    /\ td_pc = "computed"
    /\ RGt(td_result["30d"].win_rate, Zero)
    /\ RLt(td_result["30d"].win_rate, td_result["all_time"].win_rate)
    /\ ~td_result["decay_metrics"].severe_decay_alert

\* A result in which the alert is raised over a 30-day window that holds
\* records.
C12_AlertRaised ==
    /\ td_pc = "computed"
    /\ td_result["decay_metrics"].severe_decay_alert
    /\ td_result["30d"].trade_count > 0

\* C13 as claimed: two evaluations of time_decay_analysis on the same ledger
\* return the same result, whatever the wall-clock time of each call.  The
\* function takes the ledger and two column names, no reference instant, so
\* the ledger is all that the two calls can be given in common.
C13_SameLedgerSameResult ==
    (TDReturned /\ td_first # NoResult) => td_result = td_first

\* Two evaluations on the same ledger made a day apart that disagree on the
\* 30-day window.
C13_ResultsDiffer ==
    /\ TDReturned
    /\ td_first # NoResult
    /\ td_first["30d"].trade_count # td_result["30d"].trade_count

\* ------------------------------------------------------------ behavior tags
TGReturned == tg_pc \in {"returned", "returned_again"}

\* The names in the returned list.
TagNames == {tags[i][2] : i \in DOMAIN tags}

\* x > c and x < c for a metric x and an integer fraction c = p/q, q > 0,
\* false for an undefined x; said without the model's float comparisons.
Over(x, p, q) == x # NaN /\ Num(x) * q > p * Den(x)
Under(x, p, q) == x # NaN /\ Num(x) * q < p * Den(x)

\* The keys of a full metrics dictionary, and the value a rule sees for a
\* key: the one given, or the documented default of a key left out.
MetricKeys ==
    {"avg_hold_time", "top_trade_contribution", "top_token_contribution",
     "avg_time_before_pump", "trade_frequency", "win_rate", "profit_factor",
     "sharpe_ratio", "max_drawdown", "alpha_pct", "decay_alert",
     "recent_activity", "total_trades", "avg_trade_value"}
AllKeysPresent == DOMAIN analysis_results = MetricKeys
Given ==
    [k \in MetricKeys |->
        IF k \in DOMAIN analysis_results THEN analysis_results[k]
        ELSE CASE k = "avg_time_before_pump" -> Inf
               [] k = "decay_alert" -> FALSE
               [] k = "recent_activity" -> TRUE
               [] k = "total_trades" -> 0
               [] k = "sharpe_ratio" -> SurdZero
               [] OTHER -> Zero]
\* num / sqrt(den_sq) > p/q for p, q > 0: the numerator is positive and the
\* squares compare that way.
SurdOver(s, p, q) ==
    /\ Num(s.num) > 0
    /\ Num(s.num) * Num(s.num) * Den(s.den_sq) * q * q
          > p * p * Num(s.den_sq) * Den(s.num) * Den(s.num)

\* Each rule's own condition on the raw metrics, default thresholds.
DormantHolds ==
    ~Given.recent_activity /\ Given.total_trades > 0
GamblerHolds ==
    /\ Over(Given.trade_frequency, 10, 1)
    /\ Under(Given.win_rate, 2, 5)
    /\ Under(Given.profit_factor, 1, 1)
RuleHolds ==
    [n \in {"Diamond Hands", "Paper Hands", "One-Hit Wonder", "One-Token Pony",
            "Suspicious", "Sniper", "Conservative", "Smart Money",
            "Declining", "Dormant", "Active Trader", "Whale"} |->
        CASE n = "Diamond Hands" -> Over(Given.avg_hold_time, 168, 1)
          [] n = "Paper Hands" ->
                /\ Over(Given.avg_hold_time, 0, 1)
                /\ Under(Given.avg_hold_time, 24, 1)
          [] n = "One-Hit Wonder" ->
                Over(Given.top_trade_contribution, 1, 2)
          [] n = "One-Token Pony" ->
                Over(Given.top_token_contribution, 4, 5)
          [] n = "Suspicious" ->
                Under(Given.avg_time_before_pump, 60, 1)
          [] n = "Sniper" ->
                /\ Over(Given.win_rate, 7, 10)
                /\ Under(Given.trade_frequency, 5, 1)
                /\ Over(Given.profit_factor, 3, 2)
          [] n = "Conservative" ->
                /\ SurdOver(Given.sharpe_ratio, 2, 1)
                /\ Under(Given.max_drawdown, 1, 5)
                /\ Over(Given.max_drawdown, -1, 5)
          [] n = "Smart Money" ->
                /\ Over(Given.alpha_pct, 60, 1)
                /\ Over(Given.win_rate, 3, 5)
                /\ SurdOver(Given.sharpe_ratio, 3, 2)
          [] n = "Declining" -> Given.decay_alert
          [] n = "Dormant" -> DormantHolds
          [] n = "Active Trader" ->
                ~DormantHolds /\ Over(Given.trade_frequency, 5, 1)
          [] n = "Whale" -> Over(Given.avg_trade_value, 50000, 1)]

\* C14: for a metrics dictionary holding every key, the tag names returned,
\* Gambler aside, are exactly the rules whose own condition holds on the raw
\* metrics with the default thresholds.
C14_TagsAreTheRulesThatHold ==
    (TGReturned /\ AllKeysPresent) =>
        TagNames \ {"Gambler"} = {n \in DOMAIN RuleHolds : RuleHolds[n]}

\* C14 witness: a list with Diamond Hands, Sniper, Conservative and Smart
\* Money, without Gambler or Paper Hands.
C14_Witness ==
    /\ TGReturned
    /\ AllKeysPresent
    /\ {"Diamond Hands", "Sniper", "Conservative", "Smart Money"} \subseteq TagNames
    /\ TagNames \cap {"Gambler", "Paper Hands"} = {}

\* A dictionary on the thresholds themselves (hold 168 h, frequency 5,
\* win rate 0.7, profit factor 1.5): none of these rules fires.
C14_OnThresholds ==
    /\ TGReturned
    /\ Given.avg_hold_time = FromInt(168)
    /\ TagNames \cap {"Diamond Hands", "Paper Hands"} = {}

\* C15: Gambler is emitted iff trade_frequency > 10 and win_rate < 0.4 and
\* profit_factor < 1.0; with the same frequency and win rate and
\* profit_factor >= 1.0 there is no Gambler tag and nothing takes its place:
\* the list holds the rules of C14 that fire and no further entry.
C15_GamblerIffLosingHighFrequency ==
    TGReturned =>
        /\ ("Gambler" \in TagNames) <=> GamblerHolds
        /\ ( /\ Over(Given.trade_frequency, 10, 1)
             /\ Under(Given.win_rate, 2, 5)
             /\ ~Under(Given.profit_factor, 1, 1) )
           => /\ "Gambler" \notin TagNames
              /\ "Sniper" \notin TagNames
              /\ Len(tags) = Cardinality({n \in DOMAIN RuleHolds : RuleHolds[n]})

\* C15 witness: high frequency and low win rate with profit factor 2.0.
C15_Witness ==
    /\ TGReturned
    /\ Given.trade_frequency = FromInt(12)
    /\ Given.win_rate = <<3, 10>>
    /\ Given.profit_factor = FromInt(2)
    /\ "Gambler" \notin TagNames

\* The Gambler rule has fired.
C15_GamblerEmitted ==
    /\ TGReturned
    /\ "Gambler" \in TagNames
    /\ Given.profit_factor = <<1, 2>>

\* C16: the returned list holds no tag name more than once.
C16_NoDuplicateTag ==
    TGReturned =>
        \A i, j \in DOMAIN tags : i # j => tags[i][2] # tags[j][2]

\* C16 witness: a list of ten tags.
C16_Witness ==
    /\ TGReturned
    /\ Len(tags) = 10

RuleRank ==
    [n \in {"Diamond Hands", "Paper Hands", "One-Hit Wonder", "One-Token Pony",
            "Suspicious", "Gambler", "Sniper", "Conservative", "Smart Money",
            "Declining", "Dormant", "Active Trader", "Whale"} |->
        CASE n \in {"Diamond Hands", "Paper Hands"} -> 1
          [] n = "One-Hit Wonder" -> 2
          [] n = "One-Token Pony" -> 3
          [] n = "Suspicious" -> 4
          [] n = "Gambler" -> 5
          [] n = "Sniper" -> 6
          [] n = "Conservative" -> 7
          [] n = "Smart Money" -> 8
          [] n = "Declining" -> 9
          [] n \in {"Dormant", "Active Trader"} -> 10
          [] n = "Whale" -> 11]

\* C18: the tags appear in rule-evaluation order: any two tags present keep
\* the relative order Diamond Hands or Paper Hands, One-Hit Wonder, One-Token
\* Pony, Suspicious, Gambler, Sniper, Conservative, Smart Money, Declining,
\* Dormant or Active Trader, Whale.
C18_RuleEvaluationOrder ==
    TGReturned =>
        /\ TagNames \subseteq DOMAIN RuleRank
        /\ \A i, j \in DOMAIN tags :
              i < j => RuleRank[tags[i][2]] <= RuleRank[tags[j][2]]

\* C18 witness: a list that runs from a hold-time tag over Gambler to Whale.
C18_Witness ==
    /\ TGReturned
    /\ Len(tags) >= 5
    /\ tags[1][2] = "Paper Hands"
    /\ "Gambler" \in TagNames
    /\ tags[Len(tags)][2] = "Whale"

\* C19: no list holds both tags of Diamond Hands / Paper Hands, of Dormant /
\* Active Trader or of Gambler / Sniper; a wallet not recently active with
\* total_trades > 0 and trade_frequency > 5 gets Dormant only.
C19_ExclusivePairs ==
    TGReturned =>
        /\ ~({"Diamond Hands", "Paper Hands"} \subseteq TagNames)
        /\ ~({"Dormant", "Active Trader"} \subseteq TagNames)
        /\ ~({"Gambler", "Sniper"} \subseteq TagNames)
        /\ (DormantHolds /\ Over(Given.trade_frequency, 5, 1))
           => ("Dormant" \in TagNames /\ "Active Trader" \notin TagNames)

\* C19 witness: a dormant wallet with more than 5 trades a day.
C19_Witness ==
    /\ TGReturned
    /\ ~Given.recent_activity
    /\ Given.total_trades > 0
    /\ Given.trade_frequency = FromInt(12)
    /\ "Dormant" \in TagNames

\* ------------------------------------------------------------ interpreters
\* What a well-formed interpretation dictionary of each interpreter is:
\* every key present, each level one of its bands.
WellFormedAlphaBeta(d) ==
    /\ DOMAIN d = {"beta_text", "beta_level", "alpha_text", "alpha_level",
                   "attribution_text", "is_skill_based"}
    /\ d.beta_level \in {"high", "medium_high", "medium", "low"}
    /\ d.alpha_level \in {"excellent", "good", "positive", "neutral", "negative"}
    /\ d.is_skill_based \in BOOLEAN
WellFormedRisk(d) ==
    /\ DOMAIN d = {"sharpe_text", "sharpe_level", "drawdown_text",
                   "drawdown_level", "profit_factor_text",
                   "profit_factor_level", "risk_profile"}
    /\ \A k \in {"sharpe_level", "drawdown_level", "profit_factor_level"} :
          d[k] \in {"excellent", "good", "average", "poor"}
WellFormedTimeDecay(d) ==
    /\ DOMAIN d = {"main_alert", "alert_level", "win_rate_trend",
                   "activity_text", "summary"}
    /\ d.alert_level \in {"high", "medium", "low"}

\* C20: the three interpret_* functions are total over what their calculators
\* return, zero-filled results included: every result a calculator has
\* returned is interpreted without an error, and the dictionary returned
\* holds every one of the interpreter's keys, each level being one of its
\* bands.
C20_InterpretersTotal ==
    /\ ABReturned => WellFormedAlphaBeta(InterpretAlphaBeta(ab_result))
    /\ RMReturned => WellFormedRisk(InterpretRiskMetrics(rm_result))
    /\ TDReturned => WellFormedTimeDecay(InterpretTimeDecay(td_result))
    /\ in_pc = "alpha_beta" => WellFormedAlphaBeta(interpretations)
    /\ in_pc = "risk_metrics" => WellFormedRisk(interpretations)
    /\ in_pc = "time_decay" => WellFormedTimeDecay(interpretations)

\* C20 witness: the risk metrics of a wallet wiped out on its first day, whose
\* max_drawdown is undefined, have been interpreted.
C20_Witness ==
    /\ in_pc = "risk_metrics"
    /\ rm_pc = "computed"
    /\ rm_result.max_drawdown = NaN
    /\ interpretations.drawdown_level = "poor"

\* A zero-filled alpha/beta result has been interpreted.
C20_ZeroFilledInterpreted ==
    /\ in_pc = "alpha_beta"
    /\ ab_pc = "zero_short"
    /\ interpretations.beta_level = "low"

\* A time-decay result with a severe decay alert has been interpreted.
C20_AlertInterpreted ==
    /\ in_pc = "time_decay"
    /\ interpretations.alert_level = "high"
    /\ interpretations.win_rate_trend.args # <<>>

\* C21: interpret_alpha_beta sets is_skill_based exactly when the alpha share
\* exceeds one half (alpha_pct > 50), for a gain (total_return >= 0) and for a
\* loss (total_return < 0) alike.
C21_SkillBasedIffAlphaMajority ==
    in_pc = "alpha_beta" =>
        (interpretations.is_skill_based
            <=> FloatGt(Get(ab_result, "alpha_pct", Zero), FromInt(50)))

\* a loss whose alpha share is a minority above 30% is flagged skill-based
C21_MixedLossFlagged ==
    /\ in_pc = "alpha_beta"
    /\ FloatLt(ab_result.total_return, Zero)
    /\ FloatGt(ab_result.alpha_pct, FromInt(30))
    /\ ~FloatGt(ab_result.alpha_pct, FromInt(50))
    /\ interpretations.is_skill_based

\* on gains the flag is exactly alpha_pct > 50; on losses it is alpha_pct > 30
C21_FlagAsCoded ==
    in_pc = "alpha_beta" =>
        (interpretations.is_skill_based
            <=> FloatGt(ab_result.alpha_pct,
                        IF FloatGe(ab_result.total_return, Zero)
                        THEN FromInt(50) ELSE FromInt(30)))

\* ------------------------------------------------------------ calmar ratio
\* what calculate_risk_metrics computed from: the defined returns, the
\* annualized return and the magnitude of the maximum drawdown
CalmarInputs == DropNa(returns_series)
CalmarAnnualReturn ==
    Power(RAdd(One, TotalReturn(CalmarInputs)), Len(CalmarInputs))
DrawdownMagnitude == FloatAbs(rm_result.max_drawdown)

\* C22: calmar_ratio equals annual_return / |max_drawdown| whenever
\* |max_drawdown| >= 1e-4 and equals 0 when |max_drawdown| < 1e-4.
C22_CalmarFromEpsilonUp ==
    RMReturned =>
        /\ FloatGe(DrawdownMagnitude, PctEpsilon) =>
              /\ rm_pc = "computed"
              /\ rm_result.calmar_ratio =
                    Quot(CalmarAnnualReturn, DrawdownMagnitude)
        /\ FloatLt(DrawdownMagnitude, PctEpsilon) =>
              rm_result.calmar_ratio = QuotZero

\* C22 as amended: calmar_ratio equals annual_return / |max_drawdown| whenever
\* |max_drawdown| > 1e-4 and equals 0 otherwise, that is when |max_drawdown|
\* <= 1e-4 or max_drawdown is undefined.
C22_CalmarAboveEpsilon ==
    RMReturned =>
        IF FloatGt(DrawdownMagnitude, PctEpsilon)
        THEN /\ rm_pc = "computed"
             /\ rm_result.calmar_ratio =
                   Quot(CalmarAnnualReturn, DrawdownMagnitude)
        ELSE rm_result.calmar_ratio = QuotZero

\* a drawdown of exactly 0.0001 on a series whose annualized return is not 0
C22_Witness ==
    /\ rm_pc = "computed"
    /\ DrawdownMagnitude = PctEpsilon
    /\ CalmarAnnualReturn # PowerZero
    /\ rm_result.calmar_ratio = QuotZero

\* a drawdown above 0.0001 gives the quotient
C22_QuotientComputed ==
    /\ rm_pc = "computed"
    /\ FloatGt(DrawdownMagnitude, PctEpsilon)
    /\ rm_result.calmar_ratio # QuotZero

\* ------------------------------------------------------------ tag count
\* C23: for every metrics dictionary generate_behavior_tags returns at most
\* 10 tags.
C23_AtMostTenTags ==
    TGReturned => Len(tags) <= 10

\* C23 witness: ten tags are returned, the Sniper and the Dormant among them
\* (a Gambler excludes Sniper and Smart Money, an Active Trader the Sniper).
C23_Witness ==
    /\ tg_pc = "returned"
    /\ Len(tags) = 10
    /\ {"Sniper", "Dormant", "Smart Money", "Whale"} \subseteq TagNames
    /\ "Gambler" \notin TagNames

\* ------------------------------------------------------------ run_analysis
\* A component is called in this step.
CalledNow(pc_before, pc_after) == pc_after = "call" /\ pc_before # "call"
\* The dictionary handed to the classifier carries the other components'
\* results.
Merged(d) ==
    /\ d.alpha_pct = ab_result.alpha_pct
    /\ d.win_rate = rm_result.win_rate
    /\ d.profit_factor = rm_result.profit_factor
    /\ d.sharpe_ratio = rm_result.sharpe_ratio
    /\ d.max_drawdown = rm_result.max_drawdown
    /\ d.decay_alert = td_result.decay_metrics.severe_decay_alert

\* C24: in one run the components are consumed in the order attribution,
\* risk metrics, time decay, classifier: each starts only after the previous
\* one has returned, and the classifier is called only after the three
\* others have returned, with their results merged.
C24_AttributionRiskDecayTags ==
    [][ /\ CalledNow(ab_pc, ab_pc') =>
              rm_pc = "idle" /\ td_pc = "idle" /\ tg_pc = "idle"
        /\ CalledNow(rm_pc, rm_pc') =>
              ABReturned /\ td_pc = "idle" /\ tg_pc = "idle"
        /\ CalledNow(td_pc, td_pc') =>
              ABReturned /\ RMReturned /\ tg_pc = "idle"
        /\ CalledNow(tg_pc, tg_pc') =>
              ABReturned /\ RMReturned /\ TDReturned /\ Merged(analysis_results')
      ]_vars

\* C24 as amended: the order is attribution, time decay, risk metrics,
\* classifier.
C24_AttributionDecayRiskTags ==
    [][ /\ CalledNow(ab_pc, ab_pc') =>
              td_pc = "idle" /\ rm_pc = "idle" /\ tg_pc = "idle"
        /\ CalledNow(td_pc, td_pc') =>
              ABReturned /\ rm_pc = "idle" /\ tg_pc = "idle"
        /\ CalledNow(rm_pc, rm_pc') =>
              ABReturned /\ TDReturned /\ tg_pc = "idle"
        /\ CalledNow(tg_pc, tg_pc') =>
              ABReturned /\ TDReturned /\ RMReturned /\ Merged(analysis_results')
      ]_vars

\* C24 witness: the classifier has returned on a dictionary that carries a
\* decay alert, a loss-making win rate and a drawdown from the other three.
C24_Witness ==
    /\ ra_pc = "step7"
    /\ tg_pc = "returned"
    /\ ABReturned /\ TDReturned /\ RMReturned
    /\ analysis_results.decay_alert
    /\ analysis_results.max_drawdown # Zero
    /\ "Declining" \in TagNames

\* The membership checks of the debug script on the list it was handed:
\* any(t[1] == <the Chinese name of One-Token Pony> for t in tags)
pony_tag_found ==
    \E i \in DOMAIN tags : tags[i][2] = "U+5355 U+5E01 U+6218 U+58EB"

\* any(t[1] == <the Chinese name of Gambler> for t in tags)
is_gambler ==
    \E i \in DOMAIN tags : tags[i][2] = "U+9AD8 U+9891 U+8D4C U+5F92"

\* C25: whenever the Gambler rule fires the returned list holds a tuple
\* whose name element is the Chinese name of Gambler, and whenever the
\* One-Token Pony rule fires it holds one whose name element is the Chinese
\* name of One-Token Pony, so that both membership checks of the debug
\* script succeed.
C25_DebugChecksSucceed ==
    TGReturned =>
        /\ GamblerHolds => is_gambler
        /\ RuleHolds["One-Token Pony"] => pony_tag_found

\* What the code returns instead: the name element of every tuple is the
\* English tag name, which is a key of TAGS_ZH and none of its values, so
\* neither membership check ever succeeds.
C25_NamesAreEnglish ==
    TGReturned =>
        /\ \A i \in DOMAIN tags :
              /\ tags[i][2] \in DOMAIN TAGS_ZH
              /\ \A n \in DOMAIN TAGS_ZH : tags[i][2] # TAGS_ZH[n]
        /\ ~is_gambler
        /\ ~pony_tag_found

\* The third dictionary of the debug script was classified: Gambler fired.
C25_GamblerScenario ==
    /\ TGReturned
    /\ analysis_results = [trade_frequency |-> FromInt(20),
                           win_rate |-> <<3, 10>>,
                           profit_factor |-> <<1, 2>>,
                           top_token_contribution |-> <<1, 10>>]
    /\ "Gambler" \in TagNames

\* C26: for every non-empty ledger with a winning record (all-time win rate
\* > 0) and no record dated within the 30 days before the clock,
\* time_decay_analysis reports 30d.win_rate = 0, severe_decay_alert = true
\* and win_rate_decay_30d = all_time.win_rate: inactivity alone is reported
\* as severe decay.
C26_InactivityIsSevereDecay ==
    ( /\ TDReturned
      /\ trades_df # <<>>
      /\ Winners(DOMAIN trades_df) # {}
      /\ \A i \in DOMAIN trades_df : trades_df[i].timestamp < clock - 30 )
    => /\ RGt(td_result["all_time"].win_rate, Zero)
       /\ td_result["30d"].win_rate = Zero
       /\ td_result["30d"].trade_count = 0
       /\ td_result["decay_metrics"].severe_decay_alert = TRUE
       /\ td_result["decay_metrics"].win_rate_decay_30d
              = td_result["all_time"].win_rate

\* C26 witness: every record is a win, the newest one is 31 days old, and
\* the alert is raised.
C26_Witness ==
    /\ td_pc = "computed"
    /\ clock = 101
    /\ \E i \in DOMAIN trades_df : trades_df[i].timestamp = 70
    /\ \A i \in DOMAIN trades_df :
          /\ trades_df[i].timestamp <= 70
          /\ Num(trades_df[i].realized_pnl) > 0
    /\ td_result["all_time"].win_rate = One
    /\ td_result["90d"].win_rate = One
    /\ td_result["decay_metrics"].severe_decay_alert

\* C27: in every result the windows are nested: trade_count(7d) <=
\* trade_count(30d) <= trade_count(90d) <= trade_count(all_time), and every
\* record counted in a shorter window is counted in each longer one (the
\* count of a window is the number of ledger positions it holds, and the
\* positions of a shorter window are among those of each longer one).
C27_WindowsNested ==
    TDReturned =>
        /\ td_result["7d"].trade_count <= td_result["30d"].trade_count
        /\ td_result["30d"].trade_count <= td_result["90d"].trade_count
        /\ td_result["90d"].trade_count <= td_result["all_time"].trade_count
        /\ \A k \in DOMAIN WindowOf :
              td_result[k].trade_count = Cardinality(InWindow(WindowOf[k]))
        /\ InWindow(7) \subseteq InWindow(30)
        /\ InWindow(30) \subseteq InWindow(90)
        /\ InWindow(90) \subseteq InWindow(0)

\* C27 witness: the four windows hold 0, 1, 2 and 3 records.
C27_Witness ==
    /\ td_pc = "computed"
    /\ td_result["7d"].trade_count = 0
    /\ td_result["30d"].trade_count = 1
    /\ td_result["90d"].trade_count = 2
    /\ td_result["all_time"].trade_count = 3

\* C28: through run_analysis, whatever the wallet data, the dictionary handed
\* to the classifier has recent_activity true and neither the trade-value
\* nor the minutes-before-pump key, and the tag list it returns never holds
\* Dormant, Whale or Suspicious; and for no input dictionary at all, from
\* run_analysis or from a direct caller, does generate_behavior_tags emit
\* FOMO Buyer.
C28_NeverDormantWhaleSuspiciousFomo ==
    /\ ra_pc \in {"tags", "step7"} =>
          /\ analysis_results.recent_activity = TRUE
          /\ DOMAIN analysis_results
                \cap {"avg_trade_value", "avg_time_before_pump"} = {}
    /\ ra_pc = "step7" =>
          TagNames \cap {"Dormant", "Whale", "Suspicious"} = {}
    /\ TGReturned => "FOMO Buyer" \notin TagNames

\* C28 witness: a run over a wallet that traded, with no trade in the last
\* 30 days, has its tag list, and Dormant is not in it.
C28_Witness ==
    /\ ra_pc = "step7"
    /\ tg_pc = "returned"
    /\ analysis_results.total_trades > 0
    /\ trades_df # <<>>
    /\ td_result["30d"].trade_count = 0
    /\ TagNames # {}
    /\ "Dormant" \notin TagNames

\* The quantity of the queue q held in its first n lots.
RECURSIVE QueuedIn(_, _)
QueuedIn(q, n) == IF n = 0 THEN 0 ELSE q[n][1] + QueuedIn(q, n - 1)

\* What a step took from each lot of the queue it started with, read off the
\* queue it left: the lots gone from the front were taken whole, the others
\* lost the difference of their amounts.
Popped == Len(buy_queue) - Len(buy_queue')
Took(i) ==
    IF i <= Popped THEN buy_queue[i][1]
    ELSE buy_queue[i][1] - buy_queue'[i - Popped][1]
RECURSIVE MatchedPnl(_, _)
MatchedPnl(n, sell_price) ==
    IF n = 0 THEN 0
    ELSE Took(n) * (sell_price - buy_queue[n][2]) + MatchedPnl(n - 1, sell_price)
RECURSIVE TookIn(_)
TookIn(n) == IF n = 0 THEN 0 ELSE Took(n) + TookIn(n - 1)

SellsOf(df) == {i \in DOMAIN df : df[i].action = "sell"}

\* A sell row is iterated: lots leave the queue from the front only and the
\* queue keeps its order; a lot is touched only once every older lot is used
\* up; the quantity taken is min(sell amount, quantity queued); one record
\* is appended, its PnL the sum of quantity taken * (sell price - lot price);
\* a sell larger than the queued quantity empties the queue.
SellMatchesOldestFirst ==
    LET trade == Head(token_trades)
        n == Len(buy_queue)
        total == QueuedIn(buy_queue, n)
    IN  /\ Popped \in 0..n
        /\ \A i \in 1..Len(buy_queue') :
              /\ buy_queue'[i][2] = buy_queue[i + Popped][2]
              /\ buy_queue'[i][1] <= buy_queue[i + Popped][1]
        /\ \A i \in 1..n : Took(i) \in 0..buy_queue[i][1]
        /\ \A i, j \in 1..n : (i < j /\ Took(j) > 0) => Took(i) = buy_queue[i][1]
        /\ TookIn(n) = IF trade.amount <= total THEN trade.amount ELSE total
        /\ QueuedIn(buy_queue', Len(buy_queue')) = total - TookIn(n)
        /\ trade.amount > total => buy_queue' = <<>>
        /\ Len(pnl_records') = Len(pnl_records) + 1
        /\ SubSeq(pnl_records', 1, Len(pnl_records)) = pnl_records
        /\ pnl_records'[Len(pnl_records')] =
               [timestamp |-> trade.timestamp,
                token_address |-> trade.token_address,
                realized_pnl |-> MatchedPnl(n, trade.price_usd)]

\* A buy row is iterated: its lot joins the queue at the back, and no record
\* is appended.
BuyQueuesLot ==
    /\ buy_queue' = Append(buy_queue, <<Head(token_trades).amount,
                                        Head(token_trades).price_usd>>)
    /\ pnl_records' = pnl_records

RowIterated(action) ==
    /\ pnl_pc = "for_trade"
    /\ token_trades # <<>>
    /\ Head(token_trades).action = action
    /\ token_trades' = Tail(token_trades)

\* C29: in calculate_realized_pnl, for each token and after any sequence of
\* buys and sells taken in timestamp order, a sell consumes the queued lots
\* oldest-first; the quantity it matches is min(sell amount, quantity
\* queued), its PnL is the sum over the matched lots of matched quantity *
\* (sell price - lot price), a sell larger than the queued quantity leaves
\* the queue empty and its excess is ignored, no lot ever has a negative
\* remaining amount, and exactly one PnL record is produced per sell and
\* none per buy.
C29_FifoRealizedPnl ==
    /\ [](/\ \A i \in DOMAIN buy_queue : buy_queue[i][1] >= 0
          /\ \A i \in DOMAIN token_trades :
                \A j \in DOMAIN token_trades :
                    i < j => token_trades[i].timestamp
                                 <= token_trades[j].timestamp
          /\ pnl_pc = "returned" =>
                Len(pnl_records) = Cardinality(SellsOf(pnl_df)))
    /\ [][/\ RowIterated("sell") => SellMatchesOldestFirst
          /\ RowIterated("buy") => BuyQueuesLot
          /\ ~RowIterated("sell") => pnl_records' = pnl_records]_vars

\* C29 witness: two lots of 2 bought at 1 and at 3, then 3 sold at 2: the
\* older lot is used up, the newer one keeps 1, and the one record holds
\* 2 * (2 - 1) + 1 * (2 - 3) = 1.
C29_Witness ==
    /\ pnl_pc = "returned"
    /\ Len(pnl_df) = 3
    /\ pnl_df[3].action = "sell" /\ pnl_df[3].amount = 3
    /\ buy_queue = <<<<1, 3>>>>
    /\ Len(pnl_records) = 1
    /\ pnl_records[1].realized_pnl = 1

\* A sell larger than what is queued: the queue is left empty and the PnL
\* covers the queued quantity only.
C29_OversizedSell ==
    /\ pnl_pc = "returned"
    /\ Len(pnl_df) = 2
    /\ pnl_df[1].action = "buy" /\ pnl_df[1].amount = 1
    /\ pnl_df[2].action = "sell" /\ pnl_df[2].amount = 3
    /\ pnl_df[1].token_address = pnl_df[2].token_address
    /\ pnl_df[1].timestamp < pnl_df[2].timestamp
    /\ buy_queue = <<>>
    /\ pnl_records[1].realized_pnl = 2

\* _wait_for_result has returned or raised.
WRTerminated ==
    wr_pc \in {"returned", "raised_failed", "raised_timeout", "raised_request"}

\* C30: _wait_for_result always terminates, every poll and sleep returning:
\* it returns data's result at the first poll that reports
\* QUERY_STATE_COMPLETED, raises at the first poll that reports
\* QUERY_STATE_FAILED, sleeps and polls again on any other state while less
\* than max_wait seconds have elapsed, and raises TimeoutError once max_wait
\* seconds have elapsed without a terminal state; it never returns a result
\* of a poll that did not report QUERY_STATE_COMPLETED.
C30_WaitTerminates ==
    /\ <>WRTerminated
    /\ [](wr_pc = "returned" =>
             /\ StateOf(data) = "QUERY_STATE_COMPLETED"
             /\ wr_result = [value |-> Get(data, "result", "{}")])
    /\ [](wr_pc # "returned" => wr_result = NoResult)
    /\ [](wr_pc = "raised_failed" => StateOf(data) = "QUERY_STATE_FAILED")
    /\ [](wr_pc = "raised_timeout" =>
             /\ elapsed >= max_wait
             /\ StateOf(data) \notin {"QUERY_STATE_COMPLETED",
                                      "QUERY_STATE_FAILED"})
    /\ [][/\ (wr_pc = "state" /\ StateOf(data) = "QUERY_STATE_COMPLETED")
               => wr_pc' = "returned"
          /\ (wr_pc = "state" /\ StateOf(data) = "QUERY_STATE_FAILED")
               => wr_pc' = "raised_failed"
          /\ (wr_pc = "state" /\ StateOf(data) \notin {"QUERY_STATE_COMPLETED",
                                                      "QUERY_STATE_FAILED"})
               => (wr_pc' = "while" /\ elapsed' >= elapsed + 2)
          /\ (wr_pc = "while" /\ elapsed < max_wait) => wr_pc' = "get"
          /\ (wr_pc = "while" /\ elapsed >= max_wait)
               => wr_pc' = "raised_timeout"]_vars

\* C30 witness: the result is returned by a poll that follows a sleep.
C30_Witness ==
    /\ wr_pc = "returned"
    /\ elapsed >= 3
    /\ data = [state |-> "QUERY_STATE_COMPLETED", result |-> "rows"]
    /\ wr_result = [value |-> "rows"]

\* The wait has timed out after polling.
C30_TimedOut ==
    /\ wr_pc = "raised_timeout"
    /\ max_wait = 8
    /\ elapsed >= 8
    /\ StateOf(data) = "QUERY_STATE_EXECUTING"
====
